---- MODULE Spec2Model ----
(***************************************************************************)
(* Secret Keeper: the storage-bridge request correlators and the vault     *)
(* model built on them.  The repository holds two variants of the page     *)
(* script: src/script.js (postToStorage, requests correlated by a numeric  *)
(* id, gated on a READY handshake) and src/unnamed/part_000 (class         *)
(* StorageBridge, requests correlated by `${action}_${key}`, each with a   *)
(* 5 s timeout).  The variable `variant` says which script the page runs.  *)
(*                                                                         *)
(* The page is single threaded: one state transition is one macrotask (a   *)
(* message event, a timer, a click) or one microtask (the continuation of  *)
(* an async function whose awaited promise was settled).  Macrotasks run   *)
(* only when no microtask is queued.                                       *)
(***************************************************************************)
EXTENDS Integers, Sequences, FiniteSets, TLC

\* ---------------------------------------------------------------- bounds
\* Number of storage requests (promises returned by postToStorage /
\* sendCommand) a behaviour may create.
MaxCalls == 2
\* Number of async functions of the page that may be running at a time.
MaxTasks == 2

\* ------------------------------------------------------ program constants
STORAGE_KEY_USER_ID == "skr_userId"
STORAGE_KEY_VAULT_DATA == "skr_vaultData"
STORAGE_ORIGIN == "https://storage.mahdiyasser.site"
BRIDGE_ORIGIN == "https://storage.mahdiyasser.site"
\* script.js:69, `commandCounter < 10`
RetryLimit == 10

OtherOrigin == "https://evil.example"
NULL == <<>>
\* a field the message does not carry
Undefined == <<"undefined">>
NoId == -1
KEY_NOT_FOUND == "Key not found."
HOLDER_FAILURE == "Storage quota exceeded."
NOT_READY == "Storage frame not ready after timeout."
TIMED_OUT == "Storage bridge request timed out."

\* The storage commands transmitted by a page load followed by a login:
\* script.js:713 (theme), :146 and :640 (initializeApp), :201
\* (performAuthentication), :233, :234 and :640 (handleLoginAttempt).
LoginCommands == 7

\* The object literal {}.
EmptyObject == <<>>
\* A string value held by the holder.
Str(s) == <<s>>

\* What the user can type or select.
AccessIds == {"a"}
AccessIdInputs == {"", " ", "a", " a"}
EntryTypes == {"securenote", "link"}
Contents == {"", "s1"}
UserId == "u1"
MasterKey == <<"k1">>

Calls == 1..MaxCalls
Tasks == 1..MaxTasks
Keys == {STORAGE_KEY_USER_ID, STORAGE_KEY_VAULT_DATA}
Values == {<<"v1">>}
\* The commands the callers of the correlator-level specifications issue, as
\* <<command, key>>: a write and a read of one key and, for the bridge, whose
\* correlation depends on the key, a read of another.
PostCommands ==
    {<<"SAVE", STORAGE_KEY_VAULT_DATA>>, <<"RETRIEVE", STORAGE_KEY_VAULT_DATA>>,
     <<"DELETE", STORAGE_KEY_VAULT_DATA>>}
BridgeCommands ==
    {<<"set", STORAGE_KEY_VAULT_DATA>>, <<"get", STORAGE_KEY_VAULT_DATA>>,
     <<"get", STORAGE_KEY_USER_ID>>}

VARIABLES
    variant,          \* "script" (src/script.js) or "bridge" (src/unnamed/part_000)
    isIframeReady,    \* script.js:24
    commandCounter,   \* script.js:25
    pendingCommands,  \* script.js:26, id -> the request whose {resolve, reject} it holds
    pendingRequests,  \* part_000:31, requestKey -> the request whose resolve it holds
    calls,            \* the promises created by postToStorage / sendCommand
    timers,           \* requests with an armed setTimeout, in firing order
    outbox,           \* messages posted to the storage iframe, not yet handled
    inbox,            \* message events queued for the window
    store,            \* the holder's localStorage
    lastEvent,        \* what the last step did with a message event, if it handled one
    CURRENT_MASTER_KEY, \* script.js:16
    VAULT_DATA,       \* script.js:17
    popup,            \* the popup overlay: its title ("" when hidden) and onConfirm
    tasks,            \* the async functions of the page that are running
    runq,             \* microtask queue: tasks whose awaited promise was settled
    view,             \* the view showView has made visible
    masterSecurityKeyInput, \* the value of the login form's key field
    op,               \* the session operation that is running, with its locals
    sinceLogout,      \* processVaultLogout has run and no login has succeeded since
    history           \* what the last authentication and the last logout saw

corrVars == <<isIframeReady, commandCounter, pendingCommands, pendingRequests,
              calls, timers, outbox, inbox, store, lastEvent>>
corrVarsButEvent == <<isIframeReady, commandCounter, pendingCommands,
                      pendingRequests, calls, timers, outbox, inbox, store>>
sessionVars == <<view, masterSecurityKeyInput, op, sinceLogout, history>>
appVars == <<CURRENT_MASTER_KEY, VAULT_DATA, popup, tasks, sessionVars>>
vars == <<variant, corrVars, appVars, runq>>

\* ------------------------------------------------------------- promises
\* One request: the promise and what it was created for.  `settles` counts
\* the invocations of its resolve/reject functions; the promise keeps the
\* outcome of the first one.
UnusedCall ==
    [st |-> "free", command |-> "", key |-> "", value |-> NULL, id |-> NoId,
     success |-> FALSE, data |-> NULL, message |-> "", settles |-> 0,
     retries |-> 0]

\* resolve(v) / reject(e) invoked on request c's promise.
Settle(cs, c, st, success, data, message) ==
    IF cs[c].st \in {"fulfilled", "rejected"}
    THEN [cs EXCEPT ![c].settles = IF @ < 2 THEN @ + 1 ELSE @]
    ELSE [cs EXCEPT ![c] = [@ EXCEPT !.st = st, !.success = success,
                                      !.data = data, !.message = message,
                                      !.settles = @ + 1]]

Settled(c) == calls[c].st \in {"fulfilled", "rejected"}

\* ----------------------------------------------------------------- tasks
\* One running async function: which one, where it is suspended, its local
\* variables, and the request whose promise it awaits.
IdleTask == [fn |-> "idle", pc |-> "", await |-> 0, accessId |-> "", saved |-> ""]

\* The promise a task awaits was settled by this step: its continuation is
\* queued as a microtask.
Woken ==
    {t \in Tasks : /\ tasks[t].await \in Calls
                   /\ calls[tasks[t].await].st \notin {"fulfilled", "rejected"}
                   /\ calls'[tasks[t].await].st \in {"fulfilled", "rejected"}}

Wake == runq' = IF Woken = {} THEN runq ELSE Append(runq, CHOOSE t \in Woken : TRUE)

\* Macrotasks (events and timers) run when no microtask is queued.
EventLoopIdle == runq = <<>>

\* A request slot is taken in order: slot numbers carry no meaning.
NextFree(c) ==
    /\ calls[c].st = "free"
    /\ \A d \in Calls : d < c => calls[d].st # "free"

\* Function override, `obj[k] = v` / `map.set(k, v)`.
Put(f, k, v) == [x \in (DOMAIN f) \cup {k} |-> IF x = k THEN v ELSE f[x]]
\* A removal that empties the object.
RemoveAll(f, k) == EmptyObject
\* `delete obj[k]` / `map.delete(k)`.
Remove(f, k) == [x \in (DOMAIN f) \ {k} |-> f[x]]

\* showAppPopup (script.js:908-939): the overlay shows one popup at a time;
\* onConfirm is the access id the confirm callback has captured, if any.
Popup(title, onConfirm) == [title |-> title, onConfirm |-> onConfirm]
Hidden == Popup("", "")

\* ---------------------------------------------------------------- session
\* The views of showView (script.js:296-304).
LoginGateView == "loginGateView"
AuthenticatedAppGrid == "authenticatedAppGrid"

\* What showAppPopup was called with last by the running operation: title
\* and message.
Report(title, message) == <<title, message>>

\* The popups of the session, as showAppPopup is called with them: the
\* titles of the three that ask (script.js:961, :742; part_000:514, :695,
\* :935) and the <<title, message>> of those that report (script.js:197,
\* :225, :237, :243, :251, :256, :748, :757, :763; part_000:229, :250, :689,
\* :692, :708, :714, :946, :952, :965, :967, :971).  The message of a
\* caught exception is the one of the exception.
Reports ==
    [KEY_PROMPT |-> "Security Check Required",
     CONFIRM_KEY_CHANGE |-> "Confirm Key Change",
     CONFIRM_OVERWRITE |-> "Confirm Overwrite",
     LOGIN_FAILED |->
         Report("Login Failed", "The User Identifier does not match the stored account."),
     ACCESS_DENIED |->
         Report("Access Denied", "Invalid Master Security Key. Please try again."),
     VAULT_MISSING |->
         Report("Data Error", "Vault data missing from storage bridge."),
     VAULT_CORRUPTED |->
         Report("Data Error", "Vault data is corrupted and cannot be loaded."),
     SETUP_FAILED |->
         Report("Setup Failed", "Could not save vault data to the bridge."),
     SETUP_COMPLETE |->
         Report("Setup Complete", "New Vault created and secured! You are now logged in."),
     VAULT_UNLOCKED |->
         Report("Vault Unlocked", "You have successfully logged in."),
     MISSING_INFORMATION |->
         Report("Missing Information", "User Identifier and Master Security Key are required."),
     KEY_UPDATED |->
         Report("Success", "Master Security Key updated and vault re-encrypted!"),
     KEY_NOT_CHANGED |->
         Report("Failure", "Key update failed due to a storage error. Key has <strong>NOT</strong> been changed."),
     KEY_MISSING |->
         Report("Missing Information", "New Master Security Key cannot be empty."),
     KEY_SAME |->
         Report("No Change", "The new key is the same as your current key."),
     IMPORT_INVALID |->
         IF variant = "script"
         THEN Report("Import Failed", "Error: Invalid backup file structure.")
         ELSE Report("Import Error", "Invalid backup file structure."),
     IMPORT_NOT_JSON |->
         IF variant = "script"
         THEN Report("Import Failed", "Error: Unexpected token")
         ELSE Report("Import Error", "File is not valid JSON or data is corrupted."),
     IMPORT_WRONG_KEY |->
         Report("Import Failed", "The current Master Key is <strong>INCORRECT</strong> for the imported vault data. Import aborted."),
     IMPORT_WRITE_FAILED |->
         IF variant = "script"
         THEN Report("Import Failed", "Error: Storage operation 'SAVE' failed.")
         ELSE Report("Import Failed", "Failed to write data to the storage bridge."),
     IMPORT_DONE |->
         IF variant = "script"
         THEN Report("Import Complete", "Vault data successfully imported! Please re-enter your Master Security Key to log in.")
         ELSE Report("Import Success", "Vault data successfully loaded!")]

\* One run of a handler of the session layer: the function it is in, the
\* await it is suspended at, its local variables, and what is recorded about
\* it for the properties (`idStored`, `readsOk`, `failedWrite`, `before`,
\* `writes`, `decrypted`).
IdleOp ==
    [fn |-> "idle", pc |-> "", result |-> "", report |-> Report("", ""),
     userIdInput |-> "", masterKeyInput |-> NULL, value |-> NULL,
     storedEncryptedVault |-> NULL, oldKey |-> NULL, newKey |-> NULL,
     accessId |-> "", idStored |-> NULL, readsOk |-> TRUE,
     failedWrite |-> FALSE, before |-> EmptyObject, writes |-> <<>>,
     decrypted |-> FALSE]

\* What is recorded for the properties about the session: the credentials
\* the last authentication that showed the authenticated view was given,
\* whether every change made to the entries since then was saved ("yes"),
\* one is being saved ("pending") or one was not saved or was undone ("no"),
\* and the vault in memory and the holder's storage at the last logout.
NoHistory ==
    [userId |-> "", key |-> NULL, saved |-> "no", vault |-> EmptyObject,
     store |-> <<>>]

\* ---------------------------------------------------------------- messages
Msg(origin, json, id, command, key, success, data, message, tx) ==
    [origin |-> origin, json |-> json, id |-> id, command |-> command,
     key |-> key, success |-> success, data |-> data, message |-> message,
     tx |-> tx]

Init ==
    /\ variant \in {"script", "bridge"}
    /\ isIframeReady = FALSE
    /\ commandCounter = 0
    /\ pendingCommands = <<>>
    /\ pendingRequests = <<>>
    /\ calls = [c \in Calls |-> UnusedCall]
    /\ timers = <<>>
    /\ outbox = {}
    /\ inbox = {}
    /\ store = [k \in Keys |-> NULL]
    /\ lastEvent = "none"
    /\ CURRENT_MASTER_KEY = NULL
    /\ VAULT_DATA = EmptyObject
    /\ popup = Hidden
    /\ tasks = [t \in Tasks |-> IdleTask]
    /\ runq = <<>>
    /\ view = LoginGateView
    /\ masterSecurityKeyInput = Str("")
    /\ op = IdleOp
    /\ sinceLogout = FALSE
    /\ history = NoHistory

\* ------------------------------------------------- src/script.js correlator
\* postToStorage without the readiness test.
NotReadyGateOmitted == FALSE

\* script.js:67
NotReadyGate == ~isIframeReady

\* A counter that stays where it is.
NotIncremented(n) == n

\* script.js:81, `commandCounter++`: the counter after an id was taken.
Incremented(n) == n + 1

\* The body of postToStorage for the promise c, after the `!iframe` test
\* (Init is the state after DOMContentLoaded has set `iframe`).

\* `queue` holds the timers armed before the call and `retried` is 1 when the
\* call is the one made by the retry timer of script.js:70-72.
PostToStorage(c, command, key, value, queue, retried) ==
    IF NotReadyGate
    THEN /\ IF commandCounter < RetryLimit /\ command # "READY"
            THEN /\ calls' = [calls EXCEPT ![c] =
                        [@ EXCEPT !.st = "waiting", !.command = command,
                                  !.key = key, !.value = value,
                                  !.retries = (@ + retried) % 2]]
                 /\ timers' = Append(queue, c)
            ELSE /\ calls' = Settle([calls EXCEPT ![c] =
                                 [@ EXCEPT !.command = command, !.key = key,
                                           !.value = value]],
                               c, "rejected", FALSE, NULL, NOT_READY)
                 /\ timers' = queue
         /\ UNCHANGED <<commandCounter, pendingCommands, outbox>>
    ELSE LET id == commandCounter IN
         /\ commandCounter' = Incremented(commandCounter)
         /\ pendingCommands' = Put(pendingCommands, id, c)
         /\ calls' = [calls EXCEPT ![c] =
                [@ EXCEPT !.st = "inflight", !.command = command,
                          !.key = key, !.value = NULL, !.id = id,
                          !.retries = 0]]
         /\ outbox' = outbox \cup
                {[id |-> id, command |-> command, key |-> key,
                  value |-> value, tx |-> c]}
         /\ timers' = queue

\* The setTimeout callback of script.js:70-72: postToStorage again, its
\* outcome passed on to the promise of the first call.
RetryTimer ==
    /\ variant = "script"
    /\ EventLoopIdle
    /\ timers # <<>>
    /\ LET c == Head(timers) IN
       PostToStorage(c, calls[c].command, calls[c].key, calls[c].value,
                     Tail(timers), 1)
    /\ lastEvent' = "none"
    /\ Wake
    /\ UNCHANGED <<variant, isIframeReady, pendingRequests, inbox, store, appVars>>

\* A listener that trusts every sender.
OriginAcceptedAny(m) == m.origin \in {STORAGE_ORIGIN, OtherOrigin}

\* script.js:30
OriginAccepted(m) == m.origin = STORAGE_ORIGIN

\* A lookup that falls back to the oldest pending request.
ResolverOrOldest(m) ==
    IF m.id \in DOMAIN pendingCommands THEN {m.id}
    ELSE IF pendingCommands = <<>> THEN {}
    ELSE {CHOOSE i \in DOMAIN pendingCommands :
            \A j \in DOMAIN pendingCommands : i <= j}

\* script.js:41-42, the resolver the response's id selects, if any.
Resolver(m) ==
    IF m.id \in DOMAIN pendingCommands THEN {m.id} ELSE {}

\* script.js:43-52, what the resolver is invoked with.
SettleResponse(cs, c, m) ==
    IF m.success
    THEN Settle(cs, c, "fulfilled", TRUE, m.data, "")
    ELSE IF m.command = "RETRIEVE" /\ (m.message = KEY_NOT_FOUND \/ m.data = NULL)
         THEN Settle(cs, c, "fulfilled", FALSE, NULL, "")
         ELSE Settle(cs, c, "rejected", FALSE, NULL, m.message)

\* What the page is asked to ignore, seen from outside the handler: a
\* message of another origin ("forged" when it names a pending request or is
\* a handshake, "foreign" otherwise), or a holder response that names no
\* pending request ("unmatched").
EventClass(m) ==
    LET names == IF variant = "script"
                 THEN m.command = "READY" \/ m.id \in DOMAIN pendingCommands
                 ELSE m.json /\ (m.command \o "_" \o m.key) \in DOMAIN pendingRequests
    IN  IF m.origin # STORAGE_ORIGIN
        THEN IF names THEN "forged" ELSE "foreign"
        ELSE IF m.json /\ ~names THEN "unmatched" ELSE "none"

\* The window message listener of script.js:29-55, run on the event m.  The
\* answer stays queued when `again` says it will be delivered once more.
OnMessage(m, again) ==
    /\ variant = "script"
    /\ EventLoopIdle
    /\ inbox' = IF again THEN inbox ELSE inbox \ {m}
    /\ lastEvent' = EventClass(m)
    /\ IF ~OriginAccepted(m)
       THEN UNCHANGED <<isIframeReady, pendingCommands, calls>>
       ELSE IF m.command = "READY"
            THEN /\ isIframeReady' = TRUE
                 /\ UNCHANGED <<pendingCommands, calls>>
            ELSE /\ isIframeReady' = isIframeReady
                 /\ IF Resolver(m) # {}
                    THEN LET id == CHOOSE i \in Resolver(m) : TRUE IN
                         /\ calls' = SettleResponse(calls, pendingCommands[id], m)
                         /\ pendingCommands' = Remove(pendingCommands, id)
                    ELSE UNCHANGED <<pendingCommands, calls>>
    /\ Wake
    /\ UNCHANGED <<variant, commandCounter, pendingRequests, timers, outbox,
                   store, appVars>>

\* ------------------------------------- src/unnamed/part_000 StorageBridge
\* part_000:49 and :77, `${action}_${key}`
RequestKey(action, key) == action \o "_" \o key

\* part_000:74-92
SendCommand(c, action, key, value) ==
    /\ pendingRequests' = Put(pendingRequests, RequestKey(action, key), c)
    /\ timers' = Append(timers, c)
    /\ calls' = [calls EXCEPT ![c] =
           [@ EXCEPT !.st = "inflight", !.command = action, !.key = key]]
    /\ outbox' = outbox \cup
           {[id |-> NoId, command |-> action, key |-> key, value |-> value,
             tx |-> c]}

\* The setTimeout callback of part_000:82-87.  Every timer has the same
\* delay, so timers fire in the order they were armed.
Timeout ==
    /\ variant = "bridge"
    /\ EventLoopIdle
    /\ timers # <<>>
    /\ LET c == Head(timers)
           requestKey == RequestKey(calls[c].command, calls[c].key) IN
       /\ timers' = Tail(timers)
       /\ IF requestKey \in DOMAIN pendingRequests
          THEN /\ pendingRequests' = Remove(pendingRequests, requestKey)
               /\ calls' = Settle(calls, c, "fulfilled", FALSE, NULL, TIMED_OUT)
          ELSE UNCHANGED <<pendingRequests, calls>>
    /\ lastEvent' = "none"
    /\ Wake
    /\ UNCHANGED <<variant, isIframeReady, commandCounter, pendingCommands,
                   outbox, inbox, store, appVars>>

\* part_000:41
BridgeOriginAccepted(m) == m.origin = BRIDGE_ORIGIN

\* part_000:39-65, run on the event m.
HandleBridgeResponse(m, again) ==
    /\ variant = "bridge"
    /\ EventLoopIdle
    /\ inbox' = IF again THEN inbox ELSE inbox \ {m}
    /\ lastEvent' = EventClass(m)
    /\ IF ~BridgeOriginAccepted(m) \/ ~m.json
       THEN UNCHANGED <<pendingRequests, calls>>
       ELSE LET requestKey == RequestKey(m.command, m.key) IN
            IF requestKey \in DOMAIN pendingRequests
            THEN /\ pendingRequests' = Remove(pendingRequests, requestKey)
                 /\ calls' = IF m.success
                             THEN Settle(calls, pendingRequests[requestKey],
                                         "fulfilled", TRUE, m.data, "")
                             ELSE Settle(calls, pendingRequests[requestKey],
                                         "fulfilled", FALSE, NULL, m.message)
            ELSE UNCHANGED <<pendingRequests, calls>>
    /\ Wake
    /\ UNCHANGED <<variant, isIframeReady, commandCounter, pendingCommands,
                   timers, outbox, store, appVars>>

\* ------------------------------------------------------ the storage holder
\* The page at STORAGE_ORIGIN inside the iframe.  It handles one posted
\* command at a time, applies it to its localStorage unless it fails, and
\* answers; it may also leave a command unanswered for ever.  The answer to
\* a command that failed carries a message and, or not, `data: null`.
HolderStore(m, ok) ==
    IF ok /\ m.command \in {"SAVE", "set"} THEN [store EXCEPT ![m.key] = m.value]
    ELSE IF ok /\ m.command \in {"DELETE", "remove"} THEN [store EXCEPT ![m.key] = NULL]
    ELSE store

HolderAnswer(m, ok, data) ==
    IF ~ok
    THEN Msg(STORAGE_ORIGIN, TRUE, m.id, m.command, m.key, FALSE, data,
             HOLDER_FAILURE, m.tx)
    ELSE IF m.command = "RETRIEVE"
    THEN IF store[m.key] = NULL
         THEN Msg(STORAGE_ORIGIN, TRUE, m.id, m.command, m.key, FALSE, NULL,
                  KEY_NOT_FOUND, m.tx)
         ELSE Msg(STORAGE_ORIGIN, TRUE, m.id, m.command, m.key, TRUE,
                  store[m.key], "", m.tx)
    ELSE IF m.command = "get"
    THEN Msg(STORAGE_ORIGIN, TRUE, m.id, m.command, m.key, TRUE, store[m.key],
             "", m.tx)
    ELSE Msg(STORAGE_ORIGIN, TRUE, m.id, m.command, m.key, TRUE, Undefined, "",
             m.tx)

HolderHandle(m, ok) ==
    /\ m \in outbox
    /\ outbox' = outbox \ {m}
    /\ store' = HolderStore(m, ok)
    /\ \E data \in {Undefined, NULL} :
         inbox' = inbox \cup {HolderAnswer(m, ok, data)}
    /\ lastEvent' = "none"
    /\ UNCHANGED <<variant, isIframeReady, commandCounter, pendingCommands,
                   pendingRequests, calls, timers, appVars, runq>>

\* The unsolicited handshake the holder posts once it has loaded.
ReadyMessage ==
    Msg(STORAGE_ORIGIN, TRUE, NoId, "READY", "", FALSE, Undefined, "", 0)

Handshake == OnMessage(ReadyMessage, FALSE)

\* The answers of the holder's protocol, as <<command, success, data,
\* message>>, and one that fits none of its commands.
ResponseShapes ==
    {<<"SAVE", TRUE, Undefined, "">>,
     <<"SAVE", FALSE, Undefined, HOLDER_FAILURE>>,
     <<"RETRIEVE", TRUE, CHOOSE v \in Values : TRUE, "">>,
     <<"RETRIEVE", FALSE, NULL, KEY_NOT_FOUND>>}

BridgeShapes ==
    {<<TRUE, CHOOSE v \in Values : TRUE>>, <<FALSE, NULL>>}

\* Messages posted to the window by a page of another origin.
ForeignMessages ==
    IF variant = "script"
    THEN {Msg(OtherOrigin, TRUE, i, r[1], "", r[2], r[3], r[4], 0) :
            i \in (DOMAIN pendingCommands) \cup {commandCounter},
            r \in ResponseShapes}
         \cup {Msg(OtherOrigin, TRUE, NoId, "READY", "", FALSE, Undefined, "", 0)}
    ELSE {Msg(OtherOrigin, TRUE, NoId, a, k, r[1], r[2], HOLDER_FAILURE, 0) :
            a \in {"get", "set"}, k \in Keys, r \in BridgeShapes}
         \cup {Msg(OtherOrigin, FALSE, NoId, "", "", FALSE, NULL, "", 0)}

\* Messages from the holder's origin that answer no pending request (a
\* request the page never made, or one settled long ago), or that are no
\* JSON text.
StaleMessages ==
    IF variant = "script"
    THEN {Msg(STORAGE_ORIGIN, TRUE, i, r[1], "", r[2], r[3], r[4], 0) :
            i \in (0..commandCounter) \ DOMAIN pendingCommands,
            r \in ResponseShapes}
    ELSE {m \in {Msg(BRIDGE_ORIGIN, TRUE, NoId, a, k, r[1], r[2], HOLDER_FAILURE, 0) :
                   a \in {"get", "set"}, k \in Keys, r \in BridgeShapes} :
            (m.command \o "_" \o m.key) \notin DOMAIN pendingRequests}
         \cup {Msg(BRIDGE_ORIGIN, FALSE, NoId, "", "", FALSE, NULL, "", 0)}

\* ------------------------------------------------------ callers of the API
\* Any code of the page calling postToStorage (script.js:97, :105, :118).
CallPost(c, command, key, value) ==
    /\ variant = "script"
    /\ EventLoopIdle
    /\ NextFree(c)
    /\ PostToStorage(c, command, key, value, timers, 0)
    /\ lastEvent' = "none"
    /\ UNCHANGED <<variant, isIframeReady, pendingRequests, inbox, store,
                   appVars, runq>>

\* Any code of the page calling sendCommand (part_000:95, :100, :105).
CallBridge(c, action, key, value) ==
    /\ variant = "bridge"
    /\ EventLoopIdle
    /\ NextFree(c)
    /\ SendCommand(c, action, key, value)
    /\ lastEvent' = "none"
    /\ UNCHANGED <<variant, isIframeReady, commandCounter, pendingCommands,
                   inbox, store, appVars, runq>>

ValuesFor(command) == IF command \in {"SAVE", "set"} THEN Values ELSE {NULL}

\* ------------------------------------------------------ specifications
MessageEvent ==
    \/ \E m \in inbox, again \in BOOLEAN : OnMessage(m, again)
    \/ \E m \in ForeignMessages \cup StaleMessages : OnMessage(m, FALSE)

BridgeMessageEvent ==
    \/ \E m \in inbox, again \in BOOLEAN : HandleBridgeResponse(m, again)
    \/ \E m \in ForeignMessages \cup StaleMessages : HandleBridgeResponse(m, FALSE)

Holder == \E m \in outbox, ok \in BOOLEAN : HolderHandle(m, ok)

NextPost ==
    \/ \E c \in Calls, k \in PostCommands :
         \E value \in ValuesFor(k[1]) : CallPost(c, k[1], k[2], value)
    \/ RetryTimer
    \/ Handshake
    \/ MessageEvent
    \/ Holder

NextBridge ==
    \/ \E c \in Calls, k \in BridgeCommands :
         \E value \in ValuesFor(k[1]) : CallBridge(c, k[1], k[2], value)
    \/ Timeout
    \/ BridgeMessageEvent
    \/ Holder

\* The correlator of src/script.js under arbitrary callers.
InitPost == Init /\ variant = "script"
SpecPost == InitPost /\ [][NextPost]_vars
\* The correlator of src/unnamed/part_000 under arbitrary callers.
InitBridge == Init /\ variant = "bridge"
SpecBridge == InitBridge /\ [][NextBridge]_vars
\* Either page, its holder answering each command at most once, among pages
\* of other origins that post to it whatever they like.
Delivery == \E m \in inbox : OnMessage(m, FALSE)
BridgeDelivery == \E m \in inbox : HandleBridgeResponse(m, FALSE)
ForeignEvent == \E m \in ForeignMessages : OnMessage(m, FALSE)
BridgeForeignEvent == \E m \in ForeignMessages : HandleBridgeResponse(m, FALSE)

NextCorr ==
    \/ \E c \in Calls, k \in PostCommands :
         \E value \in ValuesFor(k[1]) : CallPost(c, k[1], k[2], value)
    \/ RetryTimer
    \/ Handshake
    \/ Delivery
    \/ ForeignEvent
    \/ \E c \in Calls, k \in BridgeCommands :
         \E value \in ValuesFor(k[1]) : CallBridge(c, k[1], k[2], value)
    \/ Timeout
    \/ BridgeDelivery
    \/ BridgeForeignEvent
    \/ Holder

SpecCorr == Init /\ [][NextCorr]_vars

\* The browser runs every armed timer and dispatches every queued message
\* event.  Nothing obliges the holder to answer or to send its handshake.
FairSpecPost == SpecPost /\ WF_vars(RetryTimer) /\ WF_vars(Delivery)
FairSpecBridge == SpecBridge /\ WF_vars(Timeout) /\ WF_vars(BridgeDelivery)

\* ------------------------------------------------------------ the vault
\* String.prototype.trim on the inputs the user can type.
Trim(s) == CASE s = " " -> "" [] s = " a" -> "a" [] OTHER -> s

\* JSON.stringify of an object made of strings.
Stringify(object) == <<"json", object>>

\* An encryption that hands out its key.
encryptLeaks(plaintext) == CURRENT_MASTER_KEY

\* encryptData, script.js:165-168 and part_000:167-170, once the master key
\* is known to be set: the ciphertext opens with the key it was made with.
encryptData(plaintext) == <<"enc", CURRENT_MASTER_KEY, plaintext>>

\* script.js:347-386: the entry read from the form (the timestamp is left
\* out: no code reads it back).
EntryData(type, content) == [type |-> type, content |-> content]

\* script.js:392, part_000:390
MissingInformation(type, accessId, content) ==
    accessId = "" \/ (type = "securenote" /\ content = "")

\* An add that takes every id as new.
EntryExistsNever(accessId) == FALSE

\* script.js:396 and :550, part_000:394 and :638: VAULT_DATA.entries[accessId]
EntryExists(accessId) == accessId \in DOMAIN VAULT_DATA.entries

\* What a click on Save asks for, seen from outside the handler.
AddClass(input) ==
    IF Trim(input) = "" THEN "addEmpty"
    ELSE IF Trim(input) \in DOMAIN VAULT_DATA.entries THEN "addDuplicate"
    ELSE "none"

\* The slot a new async function and a new request take: slot numbers
\* carry no meaning.
FreeTasks == {t \in Tasks : tasks[t].pc \in {"", "done"}}
FreeTask == CHOOSE t \in FreeTasks : \A u \in FreeTasks : t <= u
FreeCalls == {c \in Calls : calls[c].st = "free"}
FreeCall == CHOOSE c \in FreeCalls : \A d \in FreeCalls : c <= d

\* saveVaultData up to its await (script.js:264-269, part_000:278-285), run
\* by task t on the vault as this step leaves it, with the request c.
SaveVaultData(t, c, fn, accessId) ==
    /\ tasks' = [tasks EXCEPT ![t] =
           [fn |-> fn, pc |-> "save", await |-> c, accessId |-> accessId,
            saved |-> ""]]
    /\ LET encryptedData ==
               <<"enc", CURRENT_MASTER_KEY, Stringify(VAULT_DATA')>> IN
       IF variant = "script"
       THEN \* setAppStorage, script.js:93-98: the value is never null here
            /\ PostToStorage(c, "SAVE", STORAGE_KEY_VAULT_DATA, encryptedData,
                             timers, 0)
            /\ UNCHANGED pendingRequests
       ELSE \* Storage.setItem, part_000:99-102
            /\ SendCommand(c, "set", STORAGE_KEY_VAULT_DATA, encryptedData)
            /\ UNCHANGED <<commandCounter, pendingCommands>>
    /\ runq' = IF calls'[c].st \in {"fulfilled", "rejected"}
               THEN Append(runq, t) ELSE runq

NoStorageCall ==
    UNCHANGED <<commandCounter, pendingCommands, pendingRequests, calls,
                timers, outbox, tasks, runq>>

\* A click on Save: storeNewEntry up to its first await (script.js:343-402,
\* part_000:357-401).
StoreNewEntry(type, input, content) ==
    /\ EventLoopIdle
    /\ VAULT_DATA # EmptyObject
    /\ lastEvent' = AddClass(input)
    /\ LET accessId == Trim(input) IN
       IF variant = "script" /\ CURRENT_MASTER_KEY = NULL
       THEN /\ popup' = Popup("Error", "")
            /\ UNCHANGED VAULT_DATA /\ NoStorageCall
       ELSE IF MissingInformation(type, accessId, content)
       THEN /\ popup' = Popup("Missing Information", "")
            /\ UNCHANGED VAULT_DATA /\ NoStorageCall
       ELSE IF EntryExists(accessId)
       THEN /\ popup' = Popup("Error", "")
            /\ UNCHANGED VAULT_DATA /\ NoStorageCall
       ELSE IF CURRENT_MASTER_KEY = NULL
       THEN \* part_000:399, encryptData throws
            UNCHANGED <<popup, VAULT_DATA>> /\ NoStorageCall
       ELSE /\ FreeTasks # {} /\ FreeCalls # {}
            /\ VAULT_DATA' = [VAULT_DATA EXCEPT !.entries =
                   Put(@, accessId,
                       [type |-> type,
                        encryptedData |->
                            encryptData(Stringify(EntryData(type, content)))])]
            /\ popup' = popup
            /\ SaveVaultData(FreeTask, FreeCall, "storeNewEntry", accessId)
    /\ UNCHANGED <<variant, isIframeReady, inbox, store, CURRENT_MASTER_KEY,
                   sessionVars>>

\* A click on Delete: deleteSelectedData (script.js:541-561,
\* part_000:626-650) asks for confirmation.
DeleteSelectedData(accessId) ==
    /\ EventLoopIdle
    /\ VAULT_DATA # EmptyObject
    /\ popup' = IF accessId = "" THEN Popup("Missing Selection", "")
                ELSE Popup("Confirm Deletion", accessId)
    /\ lastEvent' = "none"
    /\ UNCHANGED <<variant, corrVarsButEvent, CURRENT_MASTER_KEY, VAULT_DATA,
                   tasks, runq, sessionVars>>

\* A click on the popup's Proceed / OK button (script.js:918 and :935-939):
\* closeAppPopup, then the confirm callback of deleteSelectedData
\* (script.js:548-560, part_000:637-648) up to its await.  The key prompt
\* binds the button to its own handler (script.js:979, part_000:531), and
\* the key change and the import pass their own callbacks (part_000:699,
\* script.js:742, part_000:939).
ConfirmPopup ==
    /\ EventLoopIdle
    /\ popup # Hidden
    /\ popup.title \notin {Reports.KEY_PROMPT, Reports.CONFIRM_KEY_CHANGE, Reports.CONFIRM_OVERWRITE}
    /\ op.pc # "confirm"
    /\ lastEvent' = "none"
    /\ LET accessId == popup.onConfirm IN
       IF accessId = ""
       THEN /\ popup' = Hidden
            /\ UNCHANGED VAULT_DATA /\ NoStorageCall
       ELSE IF ~EntryExists(accessId)
       THEN /\ popup' = Popup("Error", "")
            /\ UNCHANGED VAULT_DATA /\ NoStorageCall
       ELSE IF CURRENT_MASTER_KEY = NULL
       THEN \* saveVaultData fails before any storage call
            /\ VAULT_DATA' = [VAULT_DATA EXCEPT !.entries = Remove(@, accessId)]
            /\ popup' = Popup("Storage Error", "")
            /\ NoStorageCall
       ELSE /\ FreeTasks # {} /\ FreeCalls # {}
            /\ VAULT_DATA' = [VAULT_DATA EXCEPT !.entries = Remove(@, accessId)]
            /\ popup' = Hidden
            /\ SaveVaultData(FreeTask, FreeCall, "deleteSelectedData", accessId)
    /\ UNCHANGED <<variant, isIframeReady, inbox, store, CURRENT_MASTER_KEY,
                   sessionVars>>

\* A click on the popup's Cancel button, shown when the popup asks for
\* confirmation (script.js:920-922).
CancelPopup ==
    /\ EventLoopIdle
    /\ popup.title = "Confirm Deletion"
    /\ popup' = Hidden
    /\ lastEvent' = "none"
    /\ UNCHANGED <<variant, corrVarsButEvent, CURRENT_MASTER_KEY, VAULT_DATA,
                   tasks, runq, sessionVars>>

\* Whether the awaited save went through: script.js:269-275 (setAppStorage
\* returned or threw), part_000:285-290 (response.success).
SaveSucceeded(c) ==
    IF variant = "script" THEN calls[c].st = "fulfilled" ELSE calls[c].success

\* The continuation of saveVaultData and of its caller, run as a microtask
\* when the awaited request is settled: script.js:270-275 then :404-408 or
\* :552-557; part_000:287-295 then :403-422 or :640-645.
Resume(t) ==
    /\ runq # <<>>
    /\ t = Head(runq)
    /\ runq' = Tail(runq)
    /\ tasks' = [tasks EXCEPT ![t] =
           [@ EXCEPT !.pc = "done", !.await = 0,
                     !.saved = IF SaveSucceeded(tasks[t].await) THEN "yes" ELSE "no"]]
    /\ popup' = IF SaveSucceeded(tasks[t].await)
                THEN Popup("Success", "") ELSE Popup("Storage Error", "")
    /\ lastEvent' = "none"
    /\ UNCHANGED <<variant, corrVarsButEvent, CURRENT_MASTER_KEY, VAULT_DATA,
                   sessionVars>>

\* The page after a page load and a login with the right key: the vault the
\* holder keeps, with the entries of earlier sessions, is the vault in memory.
InitVault ==
    /\ variant \in {"script", "bridge"}
    /\ isIframeReady = (variant = "script")
    /\ commandCounter = IF variant = "script" THEN LoginCommands ELSE 0
    /\ pendingCommands = <<>>
    /\ pendingRequests = <<>>
    /\ calls = [c \in Calls |-> UnusedCall]
    /\ timers = <<>>
    /\ outbox = {}
    /\ inbox = {}
    /\ CURRENT_MASTER_KEY = MasterKey
    /\ \E ids \in SUBSET AccessIds :
         VAULT_DATA = [userId |-> UserId,
                       entries |-> [i \in ids |->
                           [type |-> "securenote",
                            encryptedData |->
                                <<"enc", MasterKey,
                                  Stringify(EntryData("securenote", "s1"))>>]]]
    /\ store = [k \in Keys |->
                  IF k = STORAGE_KEY_USER_ID THEN Str(UserId)
                  ELSE <<"enc", MasterKey, Stringify(VAULT_DATA)>>]
    /\ popup = Hidden
    /\ lastEvent = "none"
    /\ tasks = [t \in Tasks |-> IdleTask]
    /\ runq = <<>>
    /\ view = AuthenticatedAppGrid
    /\ masterSecurityKeyInput = Str("")
    /\ op = IdleOp
    /\ sinceLogout = FALSE
    /\ history = NoHistory

NextVault ==
    \/ \E type \in EntryTypes, input \in AccessIdInputs, content \in Contents :
         StoreNewEntry(type, input, content)
    \/ \E accessId \in AccessIds \cup {""} : DeleteSelectedData(accessId)
    \/ ConfirmPopup
    \/ CancelPopup
    \/ \E t \in Tasks : Resume(t)
    \/ Delivery
    \/ BridgeDelivery
    \/ Timeout
    \/ Holder

\* The unlocked page of either variant under a user who adds and deletes
\* entries.
SpecVault == InitVault /\ [][NextVault]_vars

NextAdds ==
    \/ \E input \in AccessIds \cup {"b"} : StoreNewEntry("securenote", input, "s1")
    \/ \E t \in Tasks : Resume(t)
    \/ Delivery
    \/ BridgeDelivery
    \/ Timeout
    \/ Holder

\* The unlocked page of either variant under a user who adds entries
\* without waiting for the save of the one before.
SpecAdds == InitVault /\ [][NextAdds]_vars

\* ---------------------------------------------- the session: storage
\* The operations below await the storage facade (script.js:93-122,
\* part_000:94-107).  One round trip of the facade, whose correlation is
\* modelled above, is summarised by its outcome: the holder carried the
\* command out and its answer settled the request ("ok"); the holder refused
\* it ("failed"); or, for the bridge's writes, the 5 s timer of part_000:82-87
\* settled the request while the holder carried the command out all the same
\* ("late").  A request of script.js that is never answered never resumes its
\* caller: that is the operation taking no further step.  The correlator is
\* idle between round trips and its variables are left as they are.
STORAGE_KEY_AVATAR == "skr_avatar"
SessionKeys == Keys \cup {STORAGE_KEY_AVATAR, "skr_theme"}

ReadOutcomes == {"ok", "failed"}
WriteOutcomes == IF variant = "bridge" THEN {"ok", "failed", "late"} ELSE {"ok", "failed"}

\* The facade saw a successful answer.
Answered(o) == o = "ok"

\* A test that takes every key to be set.
FalsyNever(v) == FALSE

\* `!v` for the strings and nulls of the page.
Falsy(v) == v \in {NULL, Str("")}

\* getAppStorage (script.js:103-111) and Storage.getItem (part_000:94-97):
\* the stored string, null when the key is absent or the request failed.
GetItem(key, o) ==
    IF Answered(o) /\ ~Falsy(store[key]) THEN store[key] ELSE NULL

\* A write that the holder never applies.
SetItemLost(key, value, o) == store

\* A write that removes the key.
SetItemRemoves(key, value, o) == [store EXCEPT ![key] = NULL]

\* The holder's localStorage after setAppStorage / Storage.setItem.
SetItem(key, value, o) ==
    HolderStore([command |-> "set", key |-> key, value |-> value], o \in {"ok", "late"})

\* The correlator's variables but the holder's store.
idleCorr == <<isIframeReady, commandCounter, pendingCommands, pendingRequests,
              calls, timers, outbox, inbox, lastEvent>>

\* ------------------------------------------------ the session: envelope
\* A plaintext that is no JSON text.
Garbage == <<"not json">>

\* A decryption that takes any key for the right one.
decryptAnyKey(encryptedText, decryptionKey) == encryptedText[3]

\* A decryption that opens nothing.
decryptNothing(encryptedText, decryptionKey) == NULL

\* decryptData, script.js:173-185 and part_000:178-190: null without a key,
\* for a text that is no ciphertext, for an empty plaintext (sigBytes 0) and
\* for a ciphertext made with another key, unless the bytes that key yields
\* happen to be a UTF-8 text, which is then returned; the plaintext
\* otherwise.  A ciphertext names, after its key and plaintext, the other
\* key that yields such a text, if there is one.
decryptData(encryptedText, decryptionKey) ==
    IF Falsy(decryptionKey) THEN NULL
    ELSE IF Len(encryptedText) \in {3, 4} /\ encryptedText[2] = decryptionKey
         THEN encryptedText[3]
         ELSE IF Len(encryptedText) = 4 /\ encryptedText[4] = decryptionKey
              THEN Garbage
              ELSE NULL

\* JSON.parse succeeds on the texts JSON.stringify made.
IsJson(text) == Len(text) = 2
Parse(text) == text[2]

\* A comparison that takes every stored identifier for the supplied one.
IdentifierAlwaysMatches(storedUserId, userIdInput) == TRUE

\* script.js:236, part_000:245: `storedUserId !== userIdInput` is false
IdentifierMatches(storedUserId, userIdInput) == storedUserId = Str(userIdInput)

\* ------------------------------------------- the session: authentication
OtherUserId == "u2"
OtherKey == <<"k2">>
MasterKeyInputs == {Str(""), MasterKey, OtherKey}

Running == op.pc \notin {"", "done"}

\* The operation returns after showAppPopup(report).
Reported(o, result, report) ==
    [o EXCEPT !.pc = "done", !.result = result, !.report = report]

\* The operation ends with an exception nobody catches.
Thrown(o) == [o EXCEPT !.pc = "done", !.result = "threw"]

\* A click on the login button: performAuthentication up to its await
\* (script.js:192-201, part_000:194-203).
PerformAuthentication(input, masterKeyInput) ==
    /\ EventLoopIdle
    /\ view = LoginGateView
    /\ ~Running
    /\ masterSecurityKeyInput' = masterKeyInput
    /\ LET userIdInput == Trim(input) IN
       IF userIdInput = "" \/ Falsy(masterKeyInput)
       THEN /\ popup' = Popup(Reports.MISSING_INFORMATION[1], "")
            /\ op' = Reported([IdleOp EXCEPT !.fn = "performAuthentication"],
                              "invalid", Reports.MISSING_INFORMATION)
       ELSE /\ popup' = popup
            /\ op' = [IdleOp EXCEPT !.fn = "performAuthentication",
                                    !.pc = "getUserIdCheck",
                                    !.userIdInput = userIdInput,
                                    !.masterKeyInput = masterKeyInput,
                                    !.before = VAULT_DATA]
    /\ UNCHANGED <<variant, idleCorr, store, CURRENT_MASTER_KEY, VAULT_DATA,
                   tasks, runq, view, sinceLogout, history>>

\* The read of the stored identifier returns: script.js:201-208 and
\* part_000:203-212, then handleInitialSetup or handleLoginAttempt up to its
\* first await (script.js:214, :233; part_000:217, :242).
CheckStoredUserId(o) ==
    /\ op.pc = "getUserIdCheck"
    /\ LET storedUserIdCheck == GetItem(STORAGE_KEY_USER_ID, o)
           isSetup == Falsy(storedUserIdCheck) IN
       /\ CURRENT_MASTER_KEY' = op.masterKeyInput
       /\ op' = [op EXCEPT
              !.fn = IF isSetup THEN "handleInitialSetup" ELSE "handleLoginAttempt",
              !.pc = IF isSetup THEN "setUserId" ELSE "getVaultData",
              !.value = IF isSetup THEN Str(op.userIdInput) ELSE NULL,
              !.idStored = store[STORAGE_KEY_USER_ID],
              !.readsOk = Answered(o)]
    /\ UNCHANGED <<variant, idleCorr, store, VAULT_DATA, popup, tasks, runq,
                   view, masterSecurityKeyInput, sinceLogout, history>>

\* The operation shows the authenticated view: script.js:225-227, :251-253,
\* part_000:235-237, :265-267.
ShowAuthenticatedApp(report) ==
    /\ popup' = Popup(report[1], "")
    /\ masterSecurityKeyInput' = Str("")
    /\ view' = AuthenticatedAppGrid
    /\ sinceLogout' = FALSE
    /\ history' = [history EXCEPT !.userId = op.userIdInput,
                                     !.key = op.masterKeyInput, !.saved = "yes"]
    /\ op' = Reported(op, "ok", report)

\* handleInitialSetup, the write of the identifier returns: script.js:214-220
\* (setAppStorage throws when the write failed), part_000:217-225 (the
\* result of setItem is not looked at).
UserIdWritten(o) ==
    /\ op.pc = "setUserId"
    /\ store' = SetItem(STORAGE_KEY_USER_ID, op.value, o)
    /\ IF variant = "script" /\ ~Answered(o)
       THEN /\ op' = Thrown([op EXCEPT !.failedWrite = TRUE])
            /\ UNCHANGED VAULT_DATA
       ELSE /\ VAULT_DATA' = [userId |-> op.userIdInput, entries |-> <<>>]
            /\ IF CURRENT_MASTER_KEY = NULL
               THEN op' = Thrown([op EXCEPT !.failedWrite = ~Answered(o)])
               ELSE op' = [op EXCEPT !.pc = "setVaultData",
                                     !.value = encryptData(Stringify(VAULT_DATA')),
                                     !.failedWrite = ~Answered(o)]
    /\ UNCHANGED <<masterSecurityKeyInput, view, sinceLogout, history>>
    /\ UNCHANGED <<variant, idleCorr, CURRENT_MASTER_KEY, popup, tasks, runq>>

\* handleInitialSetup, the write of the empty vault returns: script.js:220-223
\* (throws, or goes on to await updateAvatarDisplay), part_000:225-237
\* (removes the identifier, or shows the authenticated view).
VaultDataWritten(o) ==
    /\ op.pc = "setVaultData"
    /\ store' = SetItem(STORAGE_KEY_VAULT_DATA, op.value, o)
    /\ IF variant = "script"
       THEN /\ op' = IF Answered(o)
                     THEN [op EXCEPT !.pc = "getAvatar", !.value = NULL]
                     ELSE Thrown([op EXCEPT !.failedWrite = TRUE])
            /\ popup' = popup
            /\ UNCHANGED <<masterSecurityKeyInput, view, sinceLogout, history>>
       ELSE IF Answered(o)
            THEN ShowAuthenticatedApp(Reports.SETUP_COMPLETE)
            ELSE /\ op' = [op EXCEPT !.pc = "removeUserId", !.value = NULL,
                                     !.failedWrite = TRUE]
                 /\ popup' = popup
                 /\ UNCHANGED <<masterSecurityKeyInput, view, sinceLogout, history>>
    /\ UNCHANGED <<variant, idleCorr, CURRENT_MASTER_KEY, VAULT_DATA, tasks,
                   runq>>

\* handleInitialSetup of part_000, the removal of the identifier returns:
\* part_000:228-229.
UserIdRemoved(o) ==
    /\ op.pc = "removeUserId"
    /\ store' = HolderStore([command |-> "remove", key |-> STORAGE_KEY_USER_ID,
                            value |-> NULL], o \in {"ok", "late"})
    /\ popup' = Popup(Reports.SETUP_FAILED[1], "")
    /\ op' = Reported(op, "failed", Reports.SETUP_FAILED)
    /\ UNCHANGED <<variant, idleCorr, CURRENT_MASTER_KEY, VAULT_DATA, tasks,
                   runq, view, masterSecurityKeyInput,
                   sinceLogout, history>>

\* handleLoginAttempt, the read of the stored vault returns: script.js:233-234,
\* part_000:242-243.
VaultDataRead(o) ==
    /\ op.pc = "getVaultData"
    /\ op' = [op EXCEPT !.pc = "getUserId",
                        !.storedEncryptedVault = GetItem(STORAGE_KEY_VAULT_DATA, o),
                        !.readsOk = @ /\ Answered(o)]
    /\ UNCHANGED <<variant, idleCorr, store, CURRENT_MASTER_KEY, VAULT_DATA,
                   popup, tasks, runq, view, masterSecurityKeyInput, sinceLogout, history>>

\* handleLoginAttempt, the read of the stored identifier returns:
\* script.js:234-249, part_000:243-263, up to `await updateAvatarDisplay`.
UserIdRead(o) ==
    /\ op.pc = "getUserId"
    /\ LET storedUserId == GetItem(STORAGE_KEY_USER_ID, o)
           decryptedVaultString ==
               decryptData(op.storedEncryptedVault, CURRENT_MASTER_KEY)
           read == [op EXCEPT !.readsOk = @ /\ Answered(o)]
           report ==
               IF ~IdentifierMatches(storedUserId, op.userIdInput) THEN Reports.LOGIN_FAILED
               ELSE IF variant = "bridge" /\ Falsy(op.storedEncryptedVault)
                    THEN Reports.VAULT_MISSING
               ELSE IF decryptedVaultString = NULL THEN Reports.ACCESS_DENIED
               ELSE IF ~IsJson(decryptedVaultString) THEN Reports.VAULT_CORRUPTED
               ELSE Report("", "") IN
       IF report = Report("", "")
       THEN /\ VAULT_DATA' = Parse(decryptedVaultString)
            /\ op' = [read EXCEPT !.pc = "getAvatar"]
            /\ popup' = popup
       ELSE /\ VAULT_DATA' = VAULT_DATA
            /\ op' = Reported(read, "failed", report)
            /\ popup' = Popup(report[1], "")
    /\ UNCHANGED <<variant, idleCorr, store, CURRENT_MASTER_KEY, tasks, runq,
                   view, masterSecurityKeyInput, sinceLogout, history>>

\* updateAvatarDisplay returns, whatever it read: script.js:222-227 and
\* :248-253, part_000:261-267.
AvatarDisplayed ==
    /\ op.pc = "getAvatar"
    /\ ShowAuthenticatedApp(IF op.fn = "handleInitialSetup"
                            THEN Reports.SETUP_COMPLETE ELSE Reports.VAULT_UNLOCKED)
    /\ UNCHANGED <<variant, idleCorr, store, CURRENT_MASTER_KEY, VAULT_DATA,
                   tasks, runq>>

\* A click on the logout button: script.js:285-291, part_000:1062-1068.
\* Its popup takes the place of one that asked for a confirmation
\* (showAppPopup, script.js:918), whose callback is then never called.
processVaultLogout ==
    /\ EventLoopIdle
    /\ view = AuthenticatedAppGrid
    /\ CURRENT_MASTER_KEY' = NULL
    /\ VAULT_DATA' = EmptyObject
    /\ masterSecurityKeyInput' = Str("")
    /\ popup' = Popup("Signed Out", "")
    /\ view' = LoginGateView
    /\ sinceLogout' = TRUE
    /\ history' = [history EXCEPT !.vault = VAULT_DATA, !.store = store]
    /\ op' = IF op.pc = "confirm"
             THEN [op EXCEPT !.pc = "done", !.result = "cancelled"] ELSE op
    /\ UNCHANGED <<variant, idleCorr, store, tasks, runq>>

\* What earlier sessions, or other pages of the holder's origin, left in
\* the holder's localStorage: no identifier or the one of an account, and no
\* vault, the account's vault, or a ciphertext of its key that holds no JSON
\* text.
StoredVaults(ids) ==
    LET entry == [type |-> "securenote",
                  encryptedData |->
                      <<"enc", MasterKey,
                        Stringify(EntryData("securenote", "s1"))>>] IN
    [none |-> NULL,
     vault |-> <<"enc", MasterKey,
                 Stringify([userId |-> UserId, entries |-> [i \in ids |-> entry]])>>,
     garbage |-> <<"enc", MasterKey, Garbage>>]

\* The page once it is loaded and shows the login view, its correlator idle.
LoadedPage ==
    /\ variant \in {"script", "bridge"}
    /\ isIframeReady = (variant = "script")
    /\ commandCounter = IF variant = "script" THEN 3 ELSE 0
    /\ pendingCommands = <<>>
    /\ pendingRequests = <<>>
    /\ calls = [c \in Calls |-> UnusedCall]
    /\ timers = <<>>
    /\ outbox = {}
    /\ inbox = {}
    /\ lastEvent = "none"
    /\ popup = Hidden
    /\ tasks = [t \in Tasks |-> IdleTask]
    /\ runq = <<>>
    /\ op = IdleOp
    /\ sinceLogout = FALSE
    /\ history = NoHistory

InitAuth ==
    /\ LoadedPage
    /\ CURRENT_MASTER_KEY = NULL
    /\ VAULT_DATA = EmptyObject
    /\ view = LoginGateView
    /\ masterSecurityKeyInput = Str("")
    /\ \E id \in {NULL, Str(UserId)}, ids \in SUBSET AccessIds,
          v \in {"none", "vault", "garbage"} :
         store = [k \in SessionKeys |->
                    IF k = STORAGE_KEY_USER_ID THEN id
                    ELSE IF k = STORAGE_KEY_VAULT_DATA THEN StoredVaults(ids)[v]
                    ELSE NULL]

NextAuth ==
    \/ \E input \in {"", UserId, OtherUserId}, masterKeyInput \in MasterKeyInputs :
         PerformAuthentication(input, masterKeyInput)
    \/ \E o \in ReadOutcomes : CheckStoredUserId(o)
    \/ \E o \in WriteOutcomes : UserIdWritten(o)
    \/ \E o \in WriteOutcomes : VaultDataWritten(o)
    \/ \E o \in WriteOutcomes : UserIdRemoved(o)
    \/ \E o \in ReadOutcomes : VaultDataRead(o)
    \/ \E o \in ReadOutcomes : UserIdRead(o)
    \/ AvatarDisplayed
    \/ processVaultLogout

\* The login view and the logout button of either page, over a holder that
\* may fail any command.
SpecAuth == InitAuth /\ [][NextAuth]_vars

\* script.js:470-472 and :534-536: the key is dropped when the login form's
\* key field is empty.
ClearTemporaryKey(key) ==
    IF key # NULL /\ masterSecurityKeyInput = Str("") THEN NULL ELSE key

\* retrieveSelectedData from the entry lookup on, decrypting with `key`,
\* which script.js has made the master key by then (script.js:456-536,
\* part_000:568-623): how it exits and the master key it leaves.  part_000
\* looks the entry up before it prompts (part_000:556); script.js looks it
\* up after the prompt, in a vault that a logout has made {} by then
\* (script.js:456, a TypeError).
Decode(accessId, key) ==
    LET vault == IF variant = "bridge" /\ op.pc = "promptKeyForDecode"
                 THEN op.before ELSE VAULT_DATA IN
    IF vault = EmptyObject
    THEN [exit |-> "threw", key |-> key]
    ELSE IF accessId \notin DOMAIN vault.entries
    THEN [exit |-> "not found",
          key |-> IF variant = "script" THEN key ELSE CURRENT_MASTER_KEY]
    ELSE LET decryptedString ==
                 decryptData(vault.entries[accessId].encryptedData, key) IN
         [exit |-> IF decryptedString = NULL THEN "decrypt failed"
                   ELSE IF IsJson(decryptedString) THEN "displayed"
                   ELSE "corrupted",
          key |-> IF variant = "script" THEN ClearTemporaryKey(key)
                  ELSE CURRENT_MASTER_KEY]

\* The popup retrieveSelectedData leaves: script.js:461 and :473 show one,
\* part_000 writes to the output area.
DecodePopup(exit) ==
    IF variant = "script" /\ exit \in {"not found", "decrypt failed"}
    THEN Popup("Error", "") ELSE Hidden

\* A click on Decrypt: retrieveSelectedData up to its await or, when it
\* does not prompt, to its end (script.js:442-536, part_000:547-561).
retrieveSelectedData(accessId) ==
    /\ EventLoopIdle
    /\ view = AuthenticatedAppGrid
    /\ VAULT_DATA # EmptyObject
    /\ ~Running
    /\ LET started == [IdleOp EXCEPT !.fn = "retrieveSelectedData",
                                     !.accessId = accessId,
                                     !.oldKey = CURRENT_MASTER_KEY,
                                     !.before = VAULT_DATA]
           prompts == IF variant = "script" THEN CURRENT_MASTER_KEY = NULL
                      ELSE accessId \in DOMAIN VAULT_DATA.entries
           decoded == Decode(accessId, CURRENT_MASTER_KEY) IN
       IF accessId = ""
       THEN /\ op' = [started EXCEPT !.pc = "done", !.result = "no selection"]
            /\ popup' = IF variant = "script"
                        THEN Popup("Missing Selection", "") ELSE popup
            /\ UNCHANGED CURRENT_MASTER_KEY
       ELSE IF prompts
       THEN /\ op' = [started EXCEPT !.pc = "promptKeyForDecode"]
            /\ popup' = Popup(Reports.KEY_PROMPT, "")
            /\ UNCHANGED CURRENT_MASTER_KEY
       ELSE /\ op' = [started EXCEPT !.pc = "done", !.result = decoded.exit]
            /\ popup' = DecodePopup(decoded.exit)
            /\ CURRENT_MASTER_KEY' = decoded.key
    /\ UNCHANGED <<variant, idleCorr, store, VAULT_DATA, tasks, runq, view,
                   masterSecurityKeyInput, sinceLogout, history>>

\* A click on the prompt's Decrypt button with tempKey typed
\* (keyAttemptHandler, script.js:970-977, part_000:523-529), and the
\* continuation of retrieveSelectedData it resolves, which runs before any
\* other event (script.js:453-536, part_000:561-623).
ConfirmKeyPrompt(tempKey) ==
    /\ EventLoopIdle
    /\ op.pc = "promptKeyForDecode"
    /\ LET decoded == Decode(op.accessId, tempKey) IN
       IF Falsy(tempKey)
       THEN /\ op' = [op EXCEPT !.pc = "done", !.result = "cancelled"]
            /\ popup' = Hidden
            /\ UNCHANGED CURRENT_MASTER_KEY
       ELSE /\ op' = [op EXCEPT !.pc = "done", !.result = decoded.exit,
                                !.newKey = tempKey]
            /\ popup' = DecodePopup(decoded.exit)
            /\ CURRENT_MASTER_KEY' = decoded.key
    /\ UNCHANGED <<variant, idleCorr, store, VAULT_DATA, tasks, runq, view,
                   masterSecurityKeyInput, sinceLogout, history>>

\* A click on the prompt's Cancel button (script.js:980-985,
\* part_000:532-537) and the continuation it resolves with null.
CancelKeyPrompt ==
    /\ EventLoopIdle
    /\ op.pc = "promptKeyForDecode"
    /\ op' = [op EXCEPT !.pc = "done", !.result = "cancelled"]
    /\ popup' = Hidden
    /\ UNCHANGED <<variant, idleCorr, store, CURRENT_MASTER_KEY, VAULT_DATA,
                   tasks, runq, view, masterSecurityKeyInput, sinceLogout, history>>

\* The page after a login with the right key, as showAuthenticatedApp
\* leaves it: the key field of the login form emptied, the stored vault in
\* memory.  An entry of the vault holds a JSON text under the master key,
\* a JSON text under the key that was the master key when it was added, a
\* JSON text whose ciphertext another key opens to a text that is no JSON,
\* or, written by another version of the page, a text that is no JSON.
InitUnlocked ==
    /\ LoadedPage
    /\ CURRENT_MASTER_KEY = MasterKey
    /\ view = AuthenticatedAppGrid
    /\ masterSecurityKeyInput = Str("")
    /\ \E ids \in SUBSET (AccessIds \cup {"b"}) :
       \E encryptedData \in
              {<<"enc", MasterKey, Stringify(EntryData("securenote", "s1"))>>,
               <<"enc", OtherKey, Stringify(EntryData("securenote", "s1"))>>,
               <<"enc", MasterKey, Stringify(EntryData("securenote", "s1")),
                 OtherKey>>,
               <<"enc", MasterKey, Garbage>>} :
         VAULT_DATA = [userId |-> UserId,
                       entries |-> [i \in ids |->
                           [type |-> "securenote",
                            encryptedData |-> encryptedData]]]
    /\ store = [k \in SessionKeys |->
                  IF k = STORAGE_KEY_USER_ID THEN Str(UserId)
                  ELSE IF k = STORAGE_KEY_VAULT_DATA
                       THEN <<"enc", MasterKey, Stringify(VAULT_DATA)>>
                       ELSE NULL]

\* ---------------------------------------------------- the session: rekey
\* src/unnamed/part_000 only: src/script.js has no change of the master key.

\* The key the callback of updateMasterSecurityKey leaves without the revert.
RevertOmitted(oldKey, newKey) == newKey

\* part_000:712: `CURRENT_MASTER_KEY = oldKey`
Reverted(oldKey, newKey) == oldKey

\* A click on Cancel in the popup of the key change or of the import
\* (script.js:920-922, part_000:1029-1031): closeAppPopup, no callback.
CancelConfirmation ==
    /\ EventLoopIdle
    /\ op.pc = "confirm"
    /\ popup.title \in {Reports.CONFIRM_KEY_CHANGE, Reports.CONFIRM_OVERWRITE,
                       "Confirm Deletion", "DANGER ZONE"}
    /\ popup' = Hidden
    /\ op' = [op EXCEPT !.pc = "done", !.result = "cancelled"]
    /\ UNCHANGED <<variant, idleCorr, store, CURRENT_MASTER_KEY, VAULT_DATA,
                   tasks, runq, view, masterSecurityKeyInput, sinceLogout, history>>

\* A click on the button of the key form: updateMasterSecurityKey,
\* part_000:686-700.
updateMasterSecurityKey(newKey) ==
    /\ EventLoopIdle
    /\ variant = "bridge"
    /\ view = AuthenticatedAppGrid
    /\ ~Running
    /\ popup = Hidden
    /\ LET o == [IdleOp EXCEPT !.fn = "updateMasterSecurityKey",
                               !.newKey = newKey] IN
       IF Falsy(newKey)
       THEN /\ popup' = Popup(Reports.KEY_MISSING[1], "")
            /\ op' = Reported(o, "invalid", Reports.KEY_MISSING)
       ELSE IF newKey = CURRENT_MASTER_KEY
       THEN /\ popup' = Popup(Reports.KEY_SAME[1], "")
            /\ op' = Reported(o, "invalid", Reports.KEY_SAME)
       ELSE /\ popup' = Popup(Reports.CONFIRM_KEY_CHANGE, "")
            /\ op' = [o EXCEPT !.pc = "confirm"]
    /\ UNCHANGED <<variant, idleCorr, store, CURRENT_MASTER_KEY, VAULT_DATA,
                   tasks, runq, view, masterSecurityKeyInput, sinceLogout, history>>

\* A click on Proceed: closeAppPopup, then the callback up to the await of
\* saveVaultData's write (part_000:701-705, :278-285).
ConfirmKeyChange ==
    /\ EventLoopIdle
    /\ op.pc = "confirm"
    /\ popup.title = Reports.CONFIRM_KEY_CHANGE
    /\ popup' = Hidden
    /\ CURRENT_MASTER_KEY' = op.newKey
    /\ op' = [op EXCEPT !.pc = "saveVaultData",
                        !.oldKey = CURRENT_MASTER_KEY,
                        !.value = <<"enc", op.newKey, Stringify(VAULT_DATA)>>]
    /\ UNCHANGED <<variant, idleCorr, store, VAULT_DATA, tasks, runq, view,
                   masterSecurityKeyInput, sinceLogout, history>>

\* The write of the vault under the new key returns: part_000:285-290, then
\* :706-708 and saveUserAvatar(true) up to its read (:817-825), or :710-713
\* and saveVaultData again up to its write (:278-285).
NewVaultWritten(o) ==
    /\ op.pc = "saveVaultData"
    /\ store' = SetItem(STORAGE_KEY_VAULT_DATA, op.value, o)
    /\ LET written == [op EXCEPT
               !.writes = Append(@, <<STORAGE_KEY_VAULT_DATA, op.value>>)] IN
       IF Answered(o)
       THEN /\ op' = [written EXCEPT !.pc = "getAvatar"]
            /\ UNCHANGED <<CURRENT_MASTER_KEY, popup>>
       ELSE /\ popup' = Popup("Storage Error", "")
            /\ CURRENT_MASTER_KEY' = Reverted(op.oldKey, op.newKey)
            /\ op' = [written EXCEPT
                   !.pc = "saveVaultDataAgain",
                   !.failedWrite = TRUE,
                   !.value = <<"enc", CURRENT_MASTER_KEY', Stringify(VAULT_DATA)>>]
    /\ UNCHANGED <<variant, idleCorr, VAULT_DATA, tasks, runq, view,
                   masterSecurityKeyInput, sinceLogout, history>>

\* saveUserAvatar(true), the read of the stored avatar returns:
\* part_000:825-852, and part_000:708-709 when it returns true at once.
ExistingAvatarRead(o) ==
    /\ op.pc = "getAvatar"
    /\ LET existingEncrypted == GetItem(STORAGE_KEY_AVATAR, o)
           decryptedAvatar == decryptData(existingEncrypted, CURRENT_MASTER_KEY) IN
       IF Falsy(existingEncrypted) \/ Falsy(decryptedAvatar)
       THEN /\ popup' = Popup(Reports.KEY_UPDATED[1], "")
            /\ op' = Reported(op, "ok", Reports.KEY_UPDATED)
       ELSE /\ popup' = popup
            /\ op' = [op EXCEPT !.pc = "setAvatar",
                                !.value = encryptData(decryptedAvatar)]
    /\ UNCHANGED <<variant, idleCorr, store, CURRENT_MASTER_KEY, VAULT_DATA,
                   tasks, runq, view, masterSecurityKeyInput, sinceLogout, history>>

\* saveUserAvatar(true), the write of the avatar returns: part_000:854-878;
\* the caller does not look at the result (part_000:706-709).
AvatarWritten(o) ==
    /\ op.pc = "setAvatar"
    /\ store' = SetItem(STORAGE_KEY_AVATAR, op.value, o)
    /\ popup' = Popup(Reports.KEY_UPDATED[1], "")
    /\ op' = Reported([op EXCEPT
              !.writes = Append(@, <<STORAGE_KEY_AVATAR, op.value>>)],
              "ok", Reports.KEY_UPDATED)
    /\ UNCHANGED <<variant, idleCorr, CURRENT_MASTER_KEY, VAULT_DATA, tasks,
                   runq, view, masterSecurityKeyInput, sinceLogout, history>>

\* The second write of the vault returns: part_000:285-290, :713-714.
OldVaultWritten(o) ==
    /\ op.pc = "saveVaultDataAgain"
    /\ store' = SetItem(STORAGE_KEY_VAULT_DATA, op.value, o)
    /\ popup' = Popup(Reports.KEY_NOT_CHANGED[1], "")
    /\ op' = Reported([op EXCEPT
              !.writes = Append(@, <<STORAGE_KEY_VAULT_DATA, op.value>>)],
              "failed", Reports.KEY_NOT_CHANGED)
    /\ UNCHANGED <<variant, idleCorr, CURRENT_MASTER_KEY, VAULT_DATA, tasks,
                   runq, view, masterSecurityKeyInput, sinceLogout, history>>

\* A click on the upload button with an image chosen: saveUserAvatar with its
\* write (script.js:673-696; part_000:816-822, :854-878).
saveUserAvatar(o) ==
    /\ EventLoopIdle
    /\ view = AuthenticatedAppGrid
    /\ ~Running
    /\ popup = Hidden
    /\ LET dataUrl == <<"data:image/png;base64">>
           started == [IdleOp EXCEPT !.fn = "saveUserAvatar"] IN
       IF variant = "script"
       THEN \* script.js:683-693: the data URL of the file is written as it is
            /\ store' = SetItem(STORAGE_KEY_AVATAR, dataUrl, o)
            /\ IF Answered(o)
               THEN /\ popup' = Popup("Success", "")
                    /\ op' = Reported(
                           [started EXCEPT
                              !.writes = <<<<STORAGE_KEY_AVATAR, dataUrl>>>>],
                           "ok",
                           Report("Success", "Avatar image saved successfully!"))
               ELSE /\ popup' = Popup("Error", "")
                    /\ op' = Reported(
                           [started EXCEPT
                              !.writes = <<<<STORAGE_KEY_AVATAR, dataUrl>>>>],
                           "failed",
                           Report("Error", "Failed to save avatar"))
       ELSE IF Falsy(CURRENT_MASTER_KEY)
       THEN \* part_000:816-818
            /\ store' = store
            /\ popup' = Popup("Error", "")
            /\ op' = Reported(started, "refused",
                              Report("Error",
                                     "Master Key is needed to encrypt the avatar."))
       ELSE \* part_000:854-873
            /\ store' = SetItem(STORAGE_KEY_AVATAR, encryptData(dataUrl), o)
            /\ IF Answered(o)
               THEN /\ popup' = Popup("Success", "")
                    /\ op' = Reported(
                           [started EXCEPT
                              !.writes = <<<<STORAGE_KEY_AVATAR,
                                             encryptData(dataUrl)>>>>],
                           "ok",
                           Report("Success", "New avatar saved and encrypted."))
               ELSE /\ popup' = Popup("Save Error", "")
                    /\ op' = Reported(
                           [started EXCEPT
                              !.writes = <<<<STORAGE_KEY_AVATAR,
                                             encryptData(dataUrl)>>>>],
                           "failed",
                           Report("Save Error",
                                  "Could not save avatar to the storage bridge."))
    /\ UNCHANGED <<variant, idleCorr, CURRENT_MASTER_KEY, VAULT_DATA, tasks,
                   runq, view, masterSecurityKeyInput, sinceLogout, history>>

\* A click on Export: exportVaultData (script.js:772-797, part_000:903-929).
\* `value` records the document handed to the download; CURRENT_USER_ID is
\* the identifier the view was authenticated with (script.js:222, :248,
\* part_000:232, :261), which is UserId in every run.
exportVaultData(o) ==
    /\ EventLoopIdle
    /\ view = AuthenticatedAppGrid
    /\ ~Running
    /\ popup = Hidden
    /\ LET encryptedVaultData == GetItem(STORAGE_KEY_VAULT_DATA, o)
           started == [IdleOp EXCEPT !.fn = "exportVaultData",
                                     !.readsOk = Answered(o)] IN
       IF Falsy(encryptedVaultData)
       THEN /\ popup' = Popup("Export Error", "")
            /\ op' = Reported(started, "refused",
                              Report("Export Error", "No vault data to export."))
       ELSE /\ popup' = Popup("Export Complete", "")
            /\ op' = Reported(
                   [started EXCEPT
                      !.value = Stringify([userId |-> UserId,
                                           vaultData |-> encryptedVaultData])],
                   "ok",
                   Report("Export Complete",
                          "Encrypted vault backup file downloaded."))
    /\ UNCHANGED <<variant, idleCorr, store, CURRENT_MASTER_KEY, VAULT_DATA,
                   tasks, runq, view, masterSecurityKeyInput, sinceLogout,
                   history>>

NextRekey ==
    \/ \E newKey \in MasterKeyInputs : updateMasterSecurityKey(newKey)
    \/ ConfirmKeyChange
    \/ CancelConfirmation
    \/ \E o \in WriteOutcomes : NewVaultWritten(o)
    \/ \E o \in ReadOutcomes : ExistingAvatarRead(o)
    \/ \E o \in WriteOutcomes : AvatarWritten(o)
    \/ \E o \in WriteOutcomes : OldVaultWritten(o)
    \/ \E o \in WriteOutcomes : saveUserAvatar(o)
    \/ \E o \in ReadOutcomes : exportVaultData(o)
    \/ ConfirmPopup

\* The change of the master key in src/unnamed/part_000.
SpecRekey == InitUnlocked /\ [][NextRekey]_vars

\* --------------------------------------------------- the session: import
\* The function bound to the file input.
ImportFn == IF variant = "script" THEN "handleImportFile" ELSE "importVaultData"

\* The files the user can choose: text that is no JSON, an object without
\* the two fields, and backups as exportVaultData writes them (script.js:772-790,
\* part_000:903-929), of this account or of another, whose vault is
\* encrypted under the master key or under another key, or holds no JSON.
ImportFiles ==
    LET Backup(userId, encryptedVaultData) ==
            Stringify([userId |-> userId, vaultData |-> encryptedVaultData])
        otherVault == [userId |-> OtherUserId, entries |-> <<>>] IN
    {Garbage, Backup("", NULL)}
        \cup {Backup(OtherUserId, <<"enc", k, Stringify(otherVault)>>) :
                 k \in {MasterKey, OtherKey}}
        \cup {Backup(UserId, <<"enc", MasterKey, Garbage>>)}

\* The keys of the two writes, in their order: script.js:752-753,
\* part_000:956-957.
ImportKeys ==
    IF variant = "script" THEN <<STORAGE_KEY_VAULT_DATA, STORAGE_KEY_USER_ID>>
    ELSE <<STORAGE_KEY_USER_ID, STORAGE_KEY_VAULT_DATA>>

\* The value written under a key.
ImportValue(importedObject, key) ==
    IF key = STORAGE_KEY_USER_ID THEN Str(importedObject.userId)
    ELSE importedObject.vaultData

\* A file is chosen in the import input: script.js:737-742, part_000:931-939.
importVaultData(file) ==
    /\ EventLoopIdle
    /\ view = AuthenticatedAppGrid
    /\ ~Running
    /\ popup = Hidden
    /\ popup' = Popup(Reports.CONFIRM_OVERWRITE, "")
    /\ op' = [IdleOp EXCEPT !.fn = ImportFn, !.pc = "confirm", !.value = file,
                            !.before = VAULT_DATA]
    /\ UNCHANGED <<variant, idleCorr, store, CURRENT_MASTER_KEY, VAULT_DATA,
                   tasks, runq, view, masterSecurityKeyInput, sinceLogout, history>>

\* A click on Proceed, and the file read: closeAppPopup, then reader.onload
\* up to its first await (script.js:743-752, part_000:940-956).
ConfirmOverwrite ==
    /\ EventLoopIdle
    /\ op.pc = "confirm"
    /\ popup.title = Reports.CONFIRM_OVERWRITE
    /\ LET o == [op EXCEPT !.oldKey = CURRENT_MASTER_KEY] IN
       IF ~IsJson(op.value)
       THEN /\ popup' = Popup(Reports.IMPORT_NOT_JSON[1], "")
            /\ op' = Reported(o, "failed", Reports.IMPORT_NOT_JSON)
       ELSE IF Falsy(Parse(op.value).vaultData) \/ Parse(op.value).userId = ""
       THEN /\ popup' = Popup(Reports.IMPORT_INVALID[1], "")
            /\ op' = Reported(o, "failed", Reports.IMPORT_INVALID)
       ELSE IF /\ variant = "bridge"
               /\ decryptData(Parse(op.value).vaultData, CURRENT_MASTER_KEY) = NULL
       THEN /\ popup' = Popup(Reports.IMPORT_WRONG_KEY[1], "")
            /\ op' = Reported(o, "failed", Reports.IMPORT_WRONG_KEY)
       ELSE /\ popup' = Hidden
            /\ op' = [o EXCEPT !.pc = "importFirst",
                               !.decrypted = (variant = "bridge")]
    /\ UNCHANGED <<variant, idleCorr, store, CURRENT_MASTER_KEY, VAULT_DATA,
                   tasks, runq, view, masterSecurityKeyInput, sinceLogout, history>>

\* The first write returns: script.js:752-753 (setAppStorage throws when the
\* write failed, and the catch reports it, script.js:762-764),
\* part_000:956-957.
ImportFirstWritten(o) ==
    /\ op.pc = "importFirst"
    /\ LET value == ImportValue(Parse(op.value), ImportKeys[1])
           written == [op EXCEPT
               !.writes = Append(@, <<ImportKeys[1], value>>),
               !.failedWrite = ~Answered(o)] IN
       /\ store' = SetItem(ImportKeys[1], value, o)
       /\ IF variant = "script" /\ ~Answered(o)
          THEN /\ popup' = Popup(Reports.IMPORT_WRITE_FAILED[1], "")
               /\ op' = Reported(written, "failed", Reports.IMPORT_WRITE_FAILED)
          ELSE /\ popup' = popup
               /\ op' = [written EXCEPT !.pc = "importSecond"]
    /\ UNCHANGED <<variant, idleCorr, CURRENT_MASTER_KEY, VAULT_DATA, tasks,
                   runq, view, masterSecurityKeyInput, sinceLogout, history>>

\* The second write returns: script.js:753-764 (the page goes back to the
\* login view), part_000:957-972 (the imported vault replaces the one in
\* memory; JSON.parse throws into the catch when it holds no JSON).
ImportSecondWritten(o) ==
    /\ op.pc = "importSecond"
    /\ LET importedObject == Parse(op.value)
           value == ImportValue(importedObject, ImportKeys[2])
           written == [op EXCEPT
               !.writes = Append(@, <<ImportKeys[2], value>>),
               !.failedWrite = @ \/ ~Answered(o)]
           testDecryption == decryptData(importedObject.vaultData, op.oldKey) IN
       /\ store' = SetItem(ImportKeys[2], value, o)
       /\ IF written.failedWrite
          THEN /\ popup' = Popup(Reports.IMPORT_WRITE_FAILED[1], "")
               /\ op' = Reported(written, "failed", Reports.IMPORT_WRITE_FAILED)
               /\ UNCHANGED <<CURRENT_MASTER_KEY, VAULT_DATA, view>>
          ELSE IF variant = "script"
          THEN /\ popup' = Popup(Reports.IMPORT_DONE[1], "")
               /\ op' = Reported(written, "ok", Reports.IMPORT_DONE)
               /\ CURRENT_MASTER_KEY' = NULL
               /\ VAULT_DATA' = EmptyObject
               /\ view' = LoginGateView
          ELSE IF ~IsJson(testDecryption)
          THEN /\ popup' = Popup(Reports.IMPORT_NOT_JSON[1], "")
               /\ op' = Reported(written, "failed", Reports.IMPORT_NOT_JSON)
               /\ UNCHANGED <<CURRENT_MASTER_KEY, VAULT_DATA, view>>
          ELSE /\ popup' = Popup(Reports.IMPORT_DONE[1], "")
               /\ op' = Reported(written, "ok", Reports.IMPORT_DONE)
               /\ VAULT_DATA' = Parse(testDecryption)
               /\ UNCHANGED <<CURRENT_MASTER_KEY, view>>
    /\ UNCHANGED <<variant, idleCorr, tasks, runq, masterSecurityKeyInput,
                   sinceLogout, history>>

NextImport ==
    \/ \E file \in ImportFiles : importVaultData(file)
    \/ ConfirmOverwrite
    \/ CancelConfirmation
    \/ \E o \in WriteOutcomes : ImportFirstWritten(o)
    \/ \E o \in WriteOutcomes : ImportSecondWritten(o)
    \/ ConfirmPopup

\* The import of a backup by either page, after a login.
SpecImport == InitUnlocked /\ [][NextImport]_vars

\* -------------------------------------------------- the session: entries
\* A click on Save: storeNewEntry up to the await of saveVaultData
\* (script.js:343-404, part_000:357-403).  saveVaultData encrypts the vault
\* before it awaits the write (script.js:266-268, part_000:280-285).
storeNewEntry(type, input, content) ==
    /\ EventLoopIdle
    /\ view = AuthenticatedAppGrid
    /\ VAULT_DATA # EmptyObject
    /\ ~Running
    /\ popup = Hidden
    /\ LET accessId == Trim(input)
           started == [IdleOp EXCEPT !.fn = "storeNewEntry",
                                     !.accessId = accessId,
                                     !.oldKey = CURRENT_MASTER_KEY,
                                     !.before = VAULT_DATA]
           inserted == [VAULT_DATA EXCEPT !.entries =
                           Put(@, accessId,
                               [type |-> type,
                                encryptedData |->
                                    encryptData(Stringify(EntryData(type, content)))])] IN
       IF variant = "script" /\ CURRENT_MASTER_KEY = NULL
       THEN /\ popup' = Popup("Error", "")
            /\ op' = Reported(started, "refused",
                       Report("Error", "You must be logged in to save data."))
            /\ UNCHANGED <<VAULT_DATA, history>>
       ELSE IF MissingInformation(type, accessId, content)
       THEN /\ popup' = Popup("Missing Information", "")
            /\ op' = [started EXCEPT !.pc = "done", !.result = "refused"]
            /\ UNCHANGED <<VAULT_DATA, history>>
       ELSE IF EntryExists(accessId)
       THEN /\ popup' = Popup("Error", "")
            /\ op' = [started EXCEPT !.pc = "done", !.result = "refused"]
            /\ UNCHANGED <<VAULT_DATA, history>>
       ELSE IF Falsy(CURRENT_MASTER_KEY)
       THEN \* part_000:399, encryptData throws
            /\ op' = Thrown(started)
            /\ UNCHANGED <<popup, VAULT_DATA, history>>
       ELSE /\ VAULT_DATA' = inserted
            /\ op' = [started EXCEPT !.pc = "save",
                                     !.value = encryptData(Stringify(inserted))]
            /\ history' = [history EXCEPT !.saved = IF @ = "yes" THEN "pending" ELSE "no"]
            /\ UNCHANGED popup
    /\ UNCHANGED <<variant, idleCorr, store, CURRENT_MASTER_KEY, tasks, runq,
                   view, masterSecurityKeyInput, sinceLogout>>

\* A click on Delete: deleteSelectedData asks for confirmation
\* (script.js:541-547, part_000:626-636).
deleteSelectedData(accessId) ==
    /\ EventLoopIdle
    /\ view = AuthenticatedAppGrid
    /\ VAULT_DATA # EmptyObject
    /\ ~Running
    /\ popup = Hidden
    /\ LET started == [IdleOp EXCEPT !.fn = "deleteSelectedData",
                                     !.accessId = accessId,
                                     !.oldKey = CURRENT_MASTER_KEY] IN
       IF accessId = ""
       THEN /\ popup' = Popup("Missing Selection", "")
            /\ op' = [started EXCEPT !.pc = "done", !.result = "no selection"]
       ELSE /\ popup' = Popup("Confirm Deletion", "")
            /\ op' = [started EXCEPT !.pc = "confirm"]
    /\ UNCHANGED <<variant, idleCorr, store, CURRENT_MASTER_KEY, VAULT_DATA,
                   tasks, runq, view, masterSecurityKeyInput, sinceLogout, history>>

\* A click on Wipe: wipeAllVaultData asks for confirmation (script.js:612-614,
\* part_000:726-730).
wipeAllVaultData ==
    /\ EventLoopIdle
    /\ view = AuthenticatedAppGrid
    /\ ~Running
    /\ popup = Hidden
    /\ popup' = Popup("DANGER ZONE", "")
    /\ op' = [IdleOp EXCEPT !.fn = "wipeAllVaultData", !.pc = "confirm"]
    /\ UNCHANGED <<variant, idleCorr, store, CURRENT_MASTER_KEY, VAULT_DATA,
                   tasks, runq, view, masterSecurityKeyInput, sinceLogout, history>>

\* A click on the Proceed button of these two popups (script.js:935-939):
\* the popup closes and the callback runs up to its first await, the one of
\* deleteSelectedData (script.js:548-560, part_000:637-648; saveVaultData
\* fails before any write when the key is not set, script.js:264-276 and
\* part_000:278-296) or the one of wipeAllVaultData (script.js:616,
\* part_000:732).
ConfirmCallback ==
    /\ EventLoopIdle
    /\ op.pc = "confirm"
    /\ popup.title \in {"Confirm Deletion", "DANGER ZONE"}
    /\ LET removed == [VAULT_DATA EXCEPT !.entries = Remove(@, op.accessId)] IN
       IF op.fn = "wipeAllVaultData"
       THEN /\ popup' = Hidden
            /\ op' = [op EXCEPT !.pc = "remove"]
            /\ history' = [history EXCEPT !.saved = "no"]
            /\ UNCHANGED VAULT_DATA
       ELSE IF VAULT_DATA = EmptyObject \/ ~EntryExists(op.accessId)
       THEN /\ popup' = IF VAULT_DATA = EmptyObject THEN Hidden
                        ELSE Popup("Error", "")
            /\ op' = IF VAULT_DATA = EmptyObject THEN Thrown(op)
                     ELSE [op EXCEPT !.pc = "done", !.result = "refused"]
            /\ UNCHANGED <<VAULT_DATA, history>>
       ELSE IF Falsy(CURRENT_MASTER_KEY)
       THEN /\ VAULT_DATA' = removed
            /\ popup' = Popup("Storage Error", "")
            /\ op' = [op EXCEPT !.pc = "done", !.result = "failed",
                                !.before = VAULT_DATA, !.failedWrite = TRUE]
            /\ history' = [history EXCEPT !.saved = "no"]
       ELSE /\ VAULT_DATA' = removed
            /\ popup' = Hidden
            /\ op' = [op EXCEPT !.pc = "save", !.before = VAULT_DATA,
                                !.value = encryptData(Stringify(removed))]
            /\ history' = [history EXCEPT !.saved = IF @ = "yes" THEN "pending" ELSE "no"]
    /\ UNCHANGED <<variant, idleCorr, store, CURRENT_MASTER_KEY, tasks, runq,
                   view, masterSecurityKeyInput, sinceLogout>>

\* saveVaultData, its write returns, and the rest of storeNewEntry or of
\* the callback of deleteSelectedData: script.js:269-275 with :404-408 and
\* :553-557, part_000:285-290 with :403 and :640.
VaultSaved(o) ==
    /\ op.pc = "save"
    /\ store' = SetItem(STORAGE_KEY_VAULT_DATA, op.value, o)
    /\ popup' = Popup(IF Answered(o) THEN "Success" ELSE "Storage Error", "")
    /\ op' = [op EXCEPT !.pc = "done",
                        !.result = IF Answered(o) THEN "ok" ELSE "failed",
                        !.failedWrite = ~Answered(o),
                        !.writes = <<<<STORAGE_KEY_VAULT_DATA, op.value>>>>]
    /\ history' = [history EXCEPT
                      !.saved = IF @ = "pending" /\ Answered(o)
                                  /\ view = AuthenticatedAppGrid
                               THEN "yes" ELSE "no"]
    /\ UNCHANGED <<variant, idleCorr, CURRENT_MASTER_KEY, VAULT_DATA, tasks,
                   runq, view, masterSecurityKeyInput, sinceLogout>>

\* The callback of wipeAllVaultData, one of its removals returns
\* (script.js:616-619 through deleteAppStorage, script.js:116-122, which
\* returns normally whatever became of the command; part_000:732-734
\* through removeItem, part_000:104-107, which returns response.success),
\* and after the last one the rest of the callback (script.js:621-629,
\* part_000:736-746).  `writes` records, for each removal, the key, what
\* became of the command and what the call gave its caller.
KeyRemoved(o) ==
    /\ op.pc = "remove"
    /\ LET keys == IF variant = "script"
                   THEN <<STORAGE_KEY_USER_ID, STORAGE_KEY_VAULT_DATA,
                          STORAGE_KEY_AVATAR, "skr_theme">>
                   ELSE <<STORAGE_KEY_USER_ID, STORAGE_KEY_VAULT_DATA,
                          STORAGE_KEY_AVATAR>>
           key == keys[Len(op.writes) + 1]
           returned == IF variant = "script" THEN "returned"
                       ELSE IF Answered(o) THEN "true" ELSE "false"
           removals == Append(op.writes, <<key, o, returned>>) IN
       /\ store' = HolderStore([command |-> "remove", key |-> key,
                                value |-> NULL], o \in {"ok", "late"})
       /\ IF Len(removals) < Len(keys)
          THEN /\ op' = [op EXCEPT !.writes = removals]
               /\ UNCHANGED <<CURRENT_MASTER_KEY, VAULT_DATA, popup, view,
                              masterSecurityKeyInput>>
          ELSE /\ op' = Reported([op EXCEPT !.writes = removals], "ok",
                          Report("Vault Wiped",
                                 "All data has been wiped. The application is now reset."))
               /\ CURRENT_MASTER_KEY' = NULL
               /\ VAULT_DATA' = EmptyObject
               /\ popup' = Popup("Vault Wiped", "")
               /\ masterSecurityKeyInput' = Str("")
               /\ view' = LoginGateView
    /\ UNCHANGED <<variant, idleCorr, tasks, runq, sinceLogout, history>>


NextDecode ==
    \/ \E accessId \in {""} \cup AccessIds \cup {"b"} : retrieveSelectedData(accessId)
    \/ \E tempKey \in MasterKeyInputs : ConfirmKeyPrompt(tempKey)
    \/ CancelKeyPrompt
    \/ ConfirmPopup
    \/ \E accessId \in {""} \cup AccessIds \cup {"b"} : deleteSelectedData(accessId)
    \/ ConfirmCallback
    \/ CancelConfirmation
    \/ \E o \in WriteOutcomes : VaultSaved(o)

\* The decode view of either page, with its Decrypt and Delete buttons.
SpecDecode == InitUnlocked /\ [][NextDecode]_vars

NextSession ==
    \/ \E masterKeyInput \in {MasterKey, OtherKey} :
         PerformAuthentication(UserId, masterKeyInput)
    \/ \E o \in ReadOutcomes : CheckStoredUserId(o)
    \/ \E o \in WriteOutcomes : UserIdWritten(o)
    \/ \E o \in WriteOutcomes : VaultDataWritten(o)
    \/ \E o \in WriteOutcomes : UserIdRemoved(o)
    \/ \E o \in ReadOutcomes : VaultDataRead(o)
    \/ \E o \in ReadOutcomes : UserIdRead(o)
    \/ AvatarDisplayed
    \/ processVaultLogout
    \/ \E accessId \in {a \in AccessIds : /\ VAULT_DATA # EmptyObject
                                         /\ (EntryExists(a) \/ history.saved # "yes")} :
         retrieveSelectedData(accessId)
    \/ \E tempKey \in {MasterKey, OtherKey} : ConfirmKeyPrompt(tempKey)
    \/ CancelKeyPrompt
    \/ ConfirmPopup
    \/ \E input \in AccessIdInputs, content \in Contents :
         storeNewEntry("securenote", input, content)
    \/ \E accessId \in {""} \cup AccessIds : deleteSelectedData(accessId)
    \/ wipeAllVaultData
    \/ ConfirmCallback
    \/ CancelConfirmation
    \/ \E o \in WriteOutcomes : VaultSaved(o)
    \/ \E o \in WriteOutcomes : KeyRemoved(o)

\* A session of either page, from the login form on: authentication, the
\* entries, the wipe and the logout.  The list the Decrypt and Delete
\* buttons read their id from holds the ids of the vault in memory
\* (updateAccessKeyList, script.js:415-438, part_000:428-447), and the id
\* selected outlives its entry only when the deletion was not saved
\* (script.js:553-556, part_000:640-642).
SpecSession == InitAuth /\ [][NextSession]_vars

\* ------------------------------------------------------------ properties
HasEntry(c) ==
    \/ \E i \in DOMAIN pendingCommands : pendingCommands[i] = c
    \/ \E k \in DOMAIN pendingRequests : pendingRequests[k] = c

\* C1: the resolve/reject functions of a request are invoked at most once,
\* and a settled request has no entry left in the pending table.
SettledAtMostOnce ==
    \A c \in Calls : calls[c].settles <= 1 /\ (Settled(c) => ~HasEntry(c))

\* C2: a step that handled a message of another origin, whatever the message
\* names, left the ready flag, both pending tables and every promise as they
\* were.
ForeignOriginDiscarded ==
    [][lastEvent' \in {"foreign", "forged"} =>
         UNCHANGED <<isIframeReady, pendingCommands, pendingRequests, calls>>]_vars

\* C2 case: a message of another origin that named a pending request was
\* handled, by the one page and by the other.
ForgedHandledWhilePending ==
    /\ lastEvent = "forged"
    /\ \E c \in Calls : calls[c].st = "inflight" /\ HasEntry(c)

\* C3: a request waiting for the bridge to become ready leads to its
\* rejection with the not-ready error, unless the handshake arrives.
NotReadyEventuallyRejects ==
    \A c \in Calls :
        (calls[c].st = "waiting") ~>
            (isIframeReady \/ (calls[c].st = "rejected" /\ calls[c].message = NOT_READY))

\* C4: a transmitted request is eventually settled, and its entry removed,
\* whether or not the holder answers.
TransmittedEventuallySettled ==
    \A c \in Calls : (calls[c].st = "inflight") ~> (Settled(c) /\ ~HasEntry(c))

\* C5: a request in flight keeps its own pending entry until it is settled,
\* whatever other requests are made in the meantime.
OwnEntryWhileInFlight ==
    \A c \in Calls : calls[c].st = "inflight" => HasEntry(c)

\* C6: a step that handled a holder response naming no pending request left
\* the pending table and every promise as they were.
UnmatchedIdIgnored ==
    [][lastEvent' = "unmatched" => UNCHANGED <<pendingCommands, calls>>]_vars

\* C6 case: such a response was handled while another request was pending.
UnmatchedHandledWhilePending ==
    /\ lastEvent = "unmatched"
    /\ pendingCommands # <<>>

InTimers(c) == \E i \in DOMAIN timers : timers[i] = c

\* C7: while the ready flag is false nothing has been posted to the holder,
\* no pending entry exists, and every request made so far waits with its
\* retry timer armed.
NothingSentBeforeReady ==
    ~isIframeReady =>
        /\ outbox = {}
        /\ pendingCommands = <<>>
        /\ \A c \in Calls :
             calls[c].st # "free" => calls[c].st = "waiting" /\ InTimers(c)

\* C7 case: a request made before the handshake has gone through a retry and
\* still waits.
RetriedBeforeReady ==
    /\ ~isIframeReady
    /\ \E c \in Calls : calls[c].st = "waiting" /\ calls[c].retries > 0

\* C8: when storeNewEntry has returned after a failed save, the entry it
\* inserted is no longer in the in-memory entry map.
AddRolledBackOnFailedSave ==
    \A t \in Tasks :
        (tasks[t].fn = "storeNewEntry" /\ tasks[t].pc = "done" /\ tasks[t].saved = "no")
            => tasks[t].accessId \notin DOMAIN VAULT_DATA.entries

\* C9: when the confirm callback of deleteSelectedData has returned after a
\* failed save, the entry it deleted is back in the in-memory entry map.
DeleteRolledBackOnFailedSave ==
    \A t \in Tasks :
        (tasks[t].fn = "deleteSelectedData" /\ tasks[t].pc = "done" /\ tasks[t].saved = "no")
            => tasks[t].accessId \in DOMAIN VAULT_DATA.entries

\* C10: a click on Save with an empty access id or with one already in the
\* vault shows an error popup, leaves the vault as it was, starts no request
\* and posts nothing to the holder.
InvalidAddChangesNothing ==
    [][lastEvent' \in {"addEmpty", "addDuplicate"} =>
         /\ popup'.title \in {"Missing Information", "Error"}
         /\ UNCHANGED <<VAULT_DATA, commandCounter, pendingCommands,
                        pendingRequests, calls, timers, outbox, tasks>>]_vars

\* C10 case: Save was clicked with the id of an entry of the vault, while a
\* save was or was not under way.
DuplicateAddAttempted ==
    /\ lastEvent = "addDuplicate"
    /\ popup.title = "Error"
    /\ VAULT_DATA.entries # <<>>

\* C11: once an authentication attempt has ended in failure (a report other
\* than success, or an exception), the master key in memory is absent.
KeyAbsentAfterFailedAuthentication ==
    (op.fn \in {"handleInitialSetup", "handleLoginAttempt"} /\ op.pc = "done"
     /\ op.result \in {"failed", "threw"})
        => CURRENT_MASTER_KEY = NULL

\* C13: from a logout until the next successful authentication, whenever no
\* authentication is under way, the master key is absent, so that encryptData
\* throws.
KeyAbsentAfterLogout ==
    (sinceLogout /\ ~Running) => CURRENT_MASTER_KEY = NULL

\* The stored identifier is the supplied one, and the stored vault decrypts
\* under the supplied key to a JSON text.
LoadConditions ==
    /\ store[STORAGE_KEY_USER_ID] = Str(op.userIdInput)
    /\ decryptData(store[STORAGE_KEY_VAULT_DATA], op.masterKeyInput) # NULL
    /\ IsJson(decryptData(store[STORAGE_KEY_VAULT_DATA], op.masterKeyInput))

\* C14: a login attempt shows the authenticated view only under the load
\* conditions, the vault in memory being then the stored one; in every other
\* case the login view stays and the vault in memory is the one from before
\* the attempt.
UnlockedOnlyByFullLoad ==
    op.fn = "handleLoginAttempt" =>
        IF LoadConditions
        THEN view = AuthenticatedAppGrid =>
                 VAULT_DATA = Parse(decryptData(store[STORAGE_KEY_VAULT_DATA],
                                                op.masterKeyInput))
        ELSE view = LoginGateView /\ VAULT_DATA = op.before

\* C14 case: a login attempt has unlocked the vault.
UnlockedByLogin ==
    /\ op.fn = "handleLoginAttempt"
    /\ op.result = "ok"
    /\ view = AuthenticatedAppGrid
    /\ VAULT_DATA # EmptyObject

\* Why the load of a login attempt had to fail, if it had to.
LoadFailureCause ==
    IF ~IdentifierMatches(store[STORAGE_KEY_USER_ID], op.userIdInput)
    THEN "identifier mismatch"
    ELSE IF store[STORAGE_KEY_VAULT_DATA] = NULL THEN "no such vault"
    ELSE IF decryptData(store[STORAGE_KEY_VAULT_DATA], op.masterKeyInput) = NULL
    THEN "wrong key"
    ELSE IF ~IsJson(decryptData(store[STORAGE_KEY_VAULT_DATA], op.masterKeyInput))
    THEN "corrupted"
    ELSE "none"

\* C15: a login attempt whose reads were all answered reports the mismatch
\* for a stored identifier other than the supplied one, the wrong key for a
\* stored vault that does not decrypt, the corruption for one that decrypts
\* to no JSON text, and something else again when no vault is stored; and an
\* attempt made with an identifier other than the stored one ends with the
\* mismatch report, never in handleInitialSetup.
LoadFailuresDistinct ==
    /\ (op.fn = "handleLoginAttempt" /\ op.pc = "done" /\ op.readsOk) =>
           CASE LoadFailureCause = "identifier mismatch" -> op.report = Reports.LOGIN_FAILED
             [] LoadFailureCause = "wrong key" -> op.report = Reports.ACCESS_DENIED
             [] LoadFailureCause = "corrupted" -> op.report = Reports.VAULT_CORRUPTED
             [] LoadFailureCause = "no such vault" ->
                    op.report \notin {Reports.LOGIN_FAILED, Reports.ACCESS_DENIED, Reports.VAULT_CORRUPTED,
                                      Reports.VAULT_UNLOCKED}
             [] OTHER -> op.report = Reports.VAULT_UNLOCKED
    /\ (op.fn \in {"handleInitialSetup", "handleLoginAttempt"} /\ op.pc = "done"
     /\ op.idStored \notin {NULL, Str(op.userIdInput)}) =>
           op.report = Reports.LOGIN_FAILED

\* C16: performAuthentication goes on to handleInitialSetup exactly when the
\* holder stores no identifier, and to handleLoginAttempt exactly when it
\* stores one.
RegisteringIffNoStoredIdentifier ==
    /\ op.fn = "handleInitialSetup" => op.idStored = NULL
    /\ op.fn = "handleLoginAttempt" => op.idStored # NULL

\* C17: when handleInitialSetup, entered over a holder that stored no
\* identifier, has ended after one of its two writes failed, the holder
\* stores no identifier and the login view still shows.
NoHalfRegistration ==
    (/\ op.fn = "handleInitialSetup" /\ op.pc = "done"
     /\ op.idStored = NULL /\ op.failedWrite) =>
        /\ store[STORAGE_KEY_USER_ID] = NULL
        /\ view = LoginGateView

\* C12: when retrieveSelectedData, started without a master key in memory,
\* has returned after the prompt gave it a key, no master key is in memory.
PromptedKeyDiscarded ==
    (/\ op.fn = "retrieveSelectedData" /\ op.pc = "done"
     /\ op.oldKey = NULL /\ op.newKey # NULL) => CURRENT_MASTER_KEY = NULL

\* C18: when a change of the master key has ended with the report of
\* success, the stored vault and the stored avatar, if any, decrypt under the
\* master key in memory, which is the new key.
NothingLeftUnderOldKey ==
    (op.fn = "updateMasterSecurityKey" /\ op.pc = "done" /\ op.report = Reports.KEY_UPDATED) =>
        /\ CURRENT_MASTER_KEY = op.newKey
        /\ decryptData(store[STORAGE_KEY_VAULT_DATA], op.newKey) # NULL
        /\ store[STORAGE_KEY_AVATAR] # NULL =>
               decryptData(store[STORAGE_KEY_AVATAR], op.newKey) # NULL

\* C19: when a change of the master key has ended after the write of the
\* vault under the new key failed, the master key in memory is the old key
\* and a later write of the vault, encrypted under the old key, was issued.
RevertedAfterFailedWrite ==
    (op.fn = "updateMasterSecurityKey" /\ op.pc = "done" /\ op.failedWrite) =>
        /\ CURRENT_MASTER_KEY = op.oldKey
        /\ Len(op.writes) = 2
        /\ op.writes[1] =
               <<STORAGE_KEY_VAULT_DATA,
                     <<"enc", op.newKey, Stringify(VAULT_DATA)>>>>
        /\ op.writes[2] =
               <<STORAGE_KEY_VAULT_DATA,
                     <<"enc", op.oldKey, Stringify(VAULT_DATA)>>>>

\* C19 case: the write under the new key failed and the change has ended.
KeyChangeFailed ==
    /\ op.fn = "updateMasterSecurityKey" /\ op.pc = "done"
    /\ op.failedWrite
    /\ op.report = Reports.KEY_NOT_CHANGED
    /\ op.oldKey = MasterKey
    /\ op.newKey = OtherKey

\* C20: an import has issued a write of the identifier or of the vault only
\* for a backup whose encrypted vault decrypts under the master key in
\* memory when the import was confirmed.
ImportWritesOnlyDecrypted ==
    (op.fn = ImportFn /\ op.writes # <<>>) =>
        decryptData(Parse(op.value).vaultData, op.oldKey) # NULL

\* C22: a save writes the whole vault: when saveVaultData reports success,
\* the holder stores under the vault key the ciphertext, under the master
\* key, of the whole vault in memory; and every write sent is a write of
\* the vault key carrying such a ciphertext.
SavedVaultIsWholeVault ==
    [][/\ \A t \in Tasks :
            (tasks[t].pc = "save" /\ tasks'[t].pc = "done"
                /\ tasks'[t].saved = "yes") =>
                store[STORAGE_KEY_VAULT_DATA] =
                    <<"enc", CURRENT_MASTER_KEY, Stringify(VAULT_DATA)>>
       /\ \A m \in outbox' \ outbox :
            m.command \in {"SAVE", "set"} =>
                /\ m.key = STORAGE_KEY_VAULT_DATA
                /\ m.value =
                       <<"enc", CURRENT_MASTER_KEY', Stringify(VAULT_DATA')>>]_vars

\* C21: round trip. The authentication that registers shows an empty entry
\* map; and when every change made to the entries since the authenticated
\* view was shown has been saved, a login after the logout with the same
\* identifier and key, whose reads are answered from the storage the logout
\* left, succeeds and shows exactly the entries that were in memory at the
\* logout.
RoundTrip ==
    [][/\ (op.fn = "handleInitialSetup" /\ op.pc # "done" /\ op'.pc = "done"
              /\ op'.result = "ok") =>
              VAULT_DATA'.entries = EmptyObject
       /\ (/\ op.fn = "handleLoginAttempt" /\ op.pc # "done" /\ op'.pc = "done"
           /\ sinceLogout /\ history.saved = "yes" /\ op.readsOk /\ op'.readsOk
           /\ op.userIdInput = history.userId
           /\ op.masterKeyInput = history.key
           /\ store = history.store) =>
              /\ op'.result = "ok"
              /\ VAULT_DATA'.entries = history.vault.entries]_vars

\* A login after a logout shows an entry that was added, and saved, in the
\* session before.
RoundTripWithEntry ==
    /\ op.fn = "handleLoginAttempt" /\ op.result = "ok"
    /\ op.masterKeyInput = history.key
    /\ history.saved = "yes" /\ history.store = store
    /\ history.vault # EmptyObject
    /\ VAULT_DATA # EmptyObject
    /\ VAULT_DATA.entries = history.vault.entries
    /\ VAULT_DATA.entries # EmptyObject
    /\ store[STORAGE_KEY_VAULT_DATA] \notin
           {StoredVaults(ids).vault : ids \in SUBSET AccessIds}

\* C23: a read of storage that was not answered, or was answered with a
\* failure, ends the operation that made it with the error: the operation
\* never goes on with an absent value in its place.
FailedReadPropagates == ~op.readsOk => op.result = "threw"

\* C25: when the listener settles a request on a failure response, it
\* fulfils it with null if the response is that of a RETRIEVE and reports
\* the key as not found, and rejects it otherwise.
FailureResponseSettles ==
    [][\A c \in Calls, m \in inbox :
         (/\ calls[c].st = "inflight"
          /\ calls'[c].st \in {"fulfilled", "rejected"}
          /\ pendingCommands' # pendingCommands
          /\ m.origin = STORAGE_ORIGIN /\ m.id = calls[c].id /\ ~m.success) =>
             IF m.command = "RETRIEVE" /\ m.message = KEY_NOT_FOUND
             THEN calls'[c].st = "fulfilled" /\ calls'[c].data = NULL
             ELSE calls'[c].st = "rejected"]_vars

\* C24: a removal (or write) that the holder refused or never answered does
\* not return normally to its caller: the call throws or returns false.
FailedRemovalSurfaces ==
    op.fn = "wipeAllVaultData" =>
        \A i \in DOMAIN op.writes :
            op.writes[i][2] # "ok" => op.writes[i][3] \in {"false", "threw"}

\* C26: while the master key is absent no encryption succeeds: no step
\* produces a vault ciphertext to write, no step inserts an entry into the
\* vault in memory, and an add or a confirmed delete ends with an error.
NoEncryptionWithoutKey ==
    [][(CURRENT_MASTER_KEY \in {NULL, Str("")}) =>
         (/\ op'.pc = "save" => op.pc = "save"
          /\ (VAULT_DATA # EmptyObject /\ VAULT_DATA' # EmptyObject) =>
                 DOMAIN VAULT_DATA'.entries \subseteq DOMAIN VAULT_DATA.entries
          /\ (op.pc \in {"", "done"} /\ op' # op /\ op'.fn = "storeNewEntry") =>
                 op'.pc = "done" /\ op'.result \in {"refused", "threw"}
          /\ (op.fn = "deleteSelectedData" /\ op.pc = "confirm") =>
                 op'.pc \in {"confirm", "done"})]_vars

\* The vault could not be saved after a delete because the key was absent.
SaveRefusedWithoutKey ==
    /\ view = AuthenticatedAppGrid
    /\ CURRENT_MASTER_KEY = NULL
    /\ op.fn = "deleteSelectedData" /\ op.result = "failed"
    /\ op.writes = <<>>
    /\ store[STORAGE_KEY_VAULT_DATA] # NULL

MasterSecretStaysInMemory ==
    LET secrets == {MasterKey, OtherKey} IN
    /\ \A k \in DOMAIN store : store[k] \notin secrets
    /\ \A i \in DOMAIN op.writes : op.writes[i][2] \notin secrets
    /\ (op.fn = "exportVaultData" /\ op.value # NULL) =>
          /\ Str(Parse(op.value).userId) \notin secrets
          /\ Parse(op.value).vaultData \notin secrets

\* The vault was exported after the master key was changed and an avatar
\* was saved.
ExportedAfterKeyChange ==
    /\ op.fn = "exportVaultData" /\ op.result = "ok"
    /\ CURRENT_MASTER_KEY = OtherKey
    /\ store[STORAGE_KEY_AVATAR] # NULL
    /\ Parse(op.value).vaultData = store[STORAGE_KEY_VAULT_DATA]

\* C30: every value stored under the vault key and under the avatar key is
\* a ciphertext, an output of encryptData.
PersistedIsCiphertext ==
    \A k \in {STORAGE_KEY_VAULT_DATA, STORAGE_KEY_AVATAR} :
       store[k] # NULL => (Len(store[k]) \in {3, 4} /\ store[k][1] = "enc")

\* C31: deleteSelectedData is a two-step interaction.  Opening the dialog
\* changes neither the entries nor the storage; so does Cancel; the entries
\* shrink only in the step of the confirmation, which removes the entry that
\* was selected when the dialog was opened and leaves every other entry as it
\* was; and the storage changes only afterwards, by the save of the vault
\* without that entry.
DeleteIsTwoStep ==
    [][/\ (op'.fn = "deleteSelectedData" /\ op'.pc = "confirm"
              /\ op.pc # "confirm") =>
              VAULT_DATA' = VAULT_DATA /\ store' = store
       /\ (/\ op.fn = "deleteSelectedData" /\ op.pc = "confirm"
           /\ op'.pc = "done" /\ op'.result = "cancelled") =>
              VAULT_DATA' = VAULT_DATA /\ store' = store
       /\ (/\ op.fn = "deleteSelectedData" /\ op.pc = "confirm"
           /\ op'.pc \in {"save", "done"}
           /\ op'.result \notin {"cancelled", "refused", "threw"}) =>
              /\ op.accessId \in DOMAIN VAULT_DATA.entries
              /\ DOMAIN VAULT_DATA'.entries
                   = DOMAIN VAULT_DATA.entries \ {op.accessId}
              /\ \A id \in DOMAIN VAULT_DATA'.entries :
                    VAULT_DATA'.entries[id] = VAULT_DATA.entries[id]
              /\ store' = store
       /\ (op.fn = "deleteSelectedData" /\ op.pc = "save") =>
              /\ VAULT_DATA' = VAULT_DATA
              /\ store'[STORAGE_KEY_VAULT_DATA]
                   \in {store[STORAGE_KEY_VAULT_DATA],
                        <<"enc", CURRENT_MASTER_KEY, Stringify(VAULT_DATA)>>}
       /\ (/\ VAULT_DATA # EmptyObject /\ VAULT_DATA' # EmptyObject
           /\ DOMAIN VAULT_DATA'.entries # DOMAIN VAULT_DATA.entries) =>
              op.fn = "deleteSelectedData" /\ op.pc = "confirm"
       /\ (store' # store) =>
              op.fn = "deleteSelectedData" /\ op.pc = "save"]_vars

\* Of two entries the selected one was deleted after the confirmation, the
\* other one is still in the vault, and the vault was saved.
DeletedTheSelectedOfTwo ==
    /\ op.fn = "deleteSelectedData" /\ op.pc = "done" /\ op.result = "ok"
    /\ op.accessId = "a"
    /\ DOMAIN op.before.entries = {"a", "b"}
    /\ DOMAIN VAULT_DATA.entries = {"b"}
    /\ VAULT_DATA.entries["b"] = op.before.entries["b"]
    /\ store[STORAGE_KEY_VAULT_DATA]
         = <<"enc", CURRENT_MASTER_KEY, Stringify(VAULT_DATA)>>

\* C32: the stored vault body goes away only in the removals of a confirmed
\* wipe.  No other operation (logout, a failed login, the deletion of an
\* entry, a cancelled dialog) hands a null value to a write of the vault
\* key, and the logout leaves the whole storage as it is.
VaultDiscardedOnlyByWipe ==
    [][/\ (/\ store[STORAGE_KEY_VAULT_DATA] # NULL
           /\ store'[STORAGE_KEY_VAULT_DATA] = NULL) =>
              op.fn = "wipeAllVaultData" /\ op.pc = "remove"
       /\ (op'.fn # "wipeAllVaultData") =>
              \A i \in DOMAIN op'.writes :
                 op'.writes[i][1] = STORAGE_KEY_VAULT_DATA =>
                    op'.writes[i][2] # NULL
       /\ (/\ view = AuthenticatedAppGrid /\ view' = LoginGateView
           /\ popup'.title = "Signed Out") =>
              store' = store]_vars

\* After a logout a login with another key than the session's failed, and
\* the storage, with its vault body, is what the logout left.
VaultKeptAfterFailedLogin ==
    /\ sinceLogout
    /\ op.fn = "handleLoginAttempt" /\ op.pc = "done" /\ op.result # "ok"
    /\ op.masterKeyInput # history.key
    /\ history.saved = "yes"
    /\ store[STORAGE_KEY_VAULT_DATA] # NULL
    /\ store = history.store

\* C33: a decode started with the master key of the login in memory leaves
\* that key in memory, and an add made right after it is not refused for
\* want of a key.
DecodeKeepsTheKey ==
    [][/\ (/\ op' # op /\ op'.fn = "retrieveSelectedData" /\ op'.pc = "done"
           /\ view' = AuthenticatedAppGrid
           /\ op'.oldKey # NULL /\ op'.oldKey = history.key) =>
              CURRENT_MASTER_KEY' = op'.oldKey
       /\ (/\ op.fn = "retrieveSelectedData" /\ op.pc = "done"
           /\ op.oldKey # NULL /\ op.oldKey = history.key
           /\ view = AuthenticatedAppGrid
           /\ op'.fn = "storeNewEntry") =>
              op'.report # Report("Error", "You must be logged in to save data.")]_vars

\* C34: postToStorage takes a fresh id for each command it transmits: the
\* counter never decreases, a transmitted command carries the value the
\* counter had and moves it on by one, the ids of any two requests that
\* were given one differ, and each request in flight is the pending entry
\* of its id.  A request that waits for readiness has no id and no pending
\* entry, and the step that makes it wait leaves the counter as it is.
IdsStrictlyIncrease ==
    [][/\ commandCounter' >= commandCounter
       /\ \A m \in outbox' \ outbox :
             /\ m.id = commandCounter
             /\ commandCounter' = commandCounter + 1
             /\ outbox' \ outbox = {m}
       /\ (commandCounter' # commandCounter) => outbox' \ outbox # {}
       /\ \A c \in Calls :
             /\ \A d \in Calls \ {c} :
                   calls'[c].id # NoId => calls'[c].id # calls'[d].id
             /\ (calls'[c].st = "inflight") =>
                   /\ calls'[c].id \in DOMAIN pendingCommands'
                   /\ pendingCommands'[calls'[c].id] = c
             /\ (calls'[c].st = "waiting") =>
                   /\ calls'[c].id = NoId
                   /\ \A i \in DOMAIN pendingCommands' : pendingCommands'[i] # c
                   /\ (calls[c] # calls'[c]) => commandCounter' = commandCounter]_vars

\* Two requests were given ids: the one made first waited for readiness and
\* was transmitted by its retry timer after the second one, with the next id.
TwoIdsTaken ==
    \E c, d \in Calls :
       /\ c < d
       /\ calls[c].id # NoId /\ calls[d].id # NoId
       /\ calls[c].id = calls[d].id + 1
       /\ commandCounter = calls[c].id + 1

\* C35: the response to a request that its timer has settled settles no
\* other request: the step that handles it leaves every request in flight
\* as it is.
LateResponseSettlesNoOther ==
    [][\A m \in inbox : \A c \in Calls :
          (/\ m.tx \in Calls /\ m.tx # c
           /\ calls[m.tx].message = TIMED_OUT
           /\ calls[c].st = "inflight"
           /\ inbox' = inbox \ {m}) =>
              calls'[c] = calls[c]]_vars

\* C36: when a change of the master key has ended, with the new key or
\* reverted, every entry of the vault that opened under the master key
\* before the change opens under the master key in memory.
EntriesOpenAfterKeyChange ==
    [][(/\ op.fn = "updateMasterSecurityKey" /\ op.pc # "done"
        /\ op'.pc = "done" /\ op.oldKey # NULL
        /\ \A id \in DOMAIN VAULT_DATA.entries :
              decryptData(VAULT_DATA.entries[id].encryptedData, op.oldKey) # NULL) =>
           \A id \in DOMAIN VAULT_DATA'.entries :
              decryptData(VAULT_DATA'.entries[id].encryptedData,
                          CURRENT_MASTER_KEY') # NULL]_vars

\* C37: while the holder stores an identifier and a vault body, no step of
\* handleInitialSetup, entered with that identifier stored, changes the
\* stored identifier or the stored vault body.
RegisteredVaultNotReplaced ==
    [][(/\ op.fn = "handleInitialSetup"
        /\ op.idStored # NULL
        /\ store[STORAGE_KEY_USER_ID] # NULL
        /\ store[STORAGE_KEY_VAULT_DATA] # NULL) =>
           /\ store'[STORAGE_KEY_USER_ID] = store[STORAGE_KEY_USER_ID]
           /\ store'[STORAGE_KEY_VAULT_DATA] = store[STORAGE_KEY_VAULT_DATA]]_vars

\* C38: whenever no operation is running and the holder stores a vault body
\* that holds a vault, the stored identifier is the userId of that vault.
StoredIdentifierIsTheVaults ==
    LET body == store[STORAGE_KEY_VAULT_DATA] IN
    (/\ ~Running
     /\ body # NULL /\ Len(body) \in {3, 4} /\ IsJson(body[3])) =>
        store[STORAGE_KEY_USER_ID] = Str(Parse(body[3]).userId)

\* C39: two adds with distinct ids, the second made before the save of the
\* first has settled.  When the answer to the oldest write outstanding is
\* delivered and reports success, the request that sent this write is
\* settled with success, so that its add reports success; and when both
\* adds have reported success the vault in memory holds both entries.
ConcurrentAddsBothSucceed ==
    [][/\ \A m \in inbox : \A t, u \in Tasks :
             (/\ t # u
              /\ tasks[t].fn = "storeNewEntry" /\ tasks[t].pc = "save"
              /\ tasks[u].fn = "storeNewEntry" /\ tasks[u].pc = "save"
              /\ tasks[t].accessId # tasks[u].accessId
              /\ calls[tasks[t].await].st = "inflight"
              /\ calls[tasks[u].await].st = "inflight"
              /\ m.tx = tasks[t].await /\ m.success
              /\ \A n \in inbox \cup outbox : n.tx >= m.tx
              /\ inbox' = inbox \ {m}) =>
                 /\ calls'[m.tx].st = "fulfilled"
                 /\ variant = "bridge" => calls'[m.tx].success
       /\ \A t, u \in Tasks :
             (/\ t # u
              /\ tasks'[t].fn = "storeNewEntry" /\ tasks'[t].saved = "yes"
              /\ tasks'[u].fn = "storeNewEntry" /\ tasks'[u].saved = "yes"
              /\ tasks'[t].accessId # tasks'[u].accessId) =>
                 {tasks'[t].accessId, tasks'[u].accessId}
                    \subseteq DOMAIN VAULT_DATA'.entries]_vars

====
